---- MODULE Spec2Model ----
(***************************************************************************)
(* State-machine model of the gecko_poker_bot_v2 core: TableState and the  *)
(* trackers it owns (BettingActionSymbols, HistorySymbols,                 *)
(* PositionSymbols, SPRSymbols) and the state-update API that drives them. *)
(***************************************************************************)
EXTENDS Integers, Sequences, FiniteSets, TLC

VARIABLES
    players,            \* TableState.players: seat -> Player
    hero_seat,          \* TableState.hero_seat
    button_seat,        \* TableState.button_seat
    total_players,      \* TableState.total_players
    active_players,     \* TableState.active_players
    pot_size,           \* TableState.pot_size
    current_street,     \* TableState.current_street
    current_bet,        \* TableState.current_bet
    min_raise,          \* TableState.min_raise
    last_aggressor,     \* TableState.last_aggressor
    betting_symbols,    \* TableState.betting_symbols (BettingActionSymbols)
    history_symbols,    \* TableState.history_symbols (HistorySymbols)
    position_symbols,   \* TableState.position_symbols (PositionSymbols)
    spr_symbols,        \* TableState.spr_symbols (SPRSymbols)
    hero_cards,         \* TableState.hero_cards
    community_cards,    \* TableState.community_cards
    last_call,          \* the API call that produced this state, its arguments and outcome
    hand_log            \* the records accepted since the last new_hand, in call order

vars == <<players, hero_seat, button_seat, total_players, active_players,
          pot_size, current_street, current_bet, min_raise, last_aggressor,
          betting_symbols, history_symbols, position_symbols, spr_symbols,
          hero_cards, community_cards, last_call, hand_log>>

----------------------------------------------------------------------------
(* Bounds of the model *)

\* Records accepted per hand (sum of the lengths of the per-street lists).
MaxActions == 3

----------------------------------------------------------------------------
(* poker_enums *)

PREFLOP == 1
FLOP == 2
TURN == 3
RIVER == 4
Street == {PREFLOP, FLOP, TURN, RIVER}

FOLD == "FOLD"
CHECK == "CHECK"
CALL == "CALL"
RAISE == "RAISE"
ALL_IN == "ALL_IN"
Action == {FOLD, CHECK, CALL, RAISE, ALL_IN}

BUTTON == "BUTTON"
SMALL_BLIND == "SMALL_BLIND"
BIG_BLIND == "BIG_BLIND"

\* Python None for an Optional[Action], an Optional[float], an Optional[int]
\* and an Optional[str].
NoAction == "None"
NoAmount == -1
NoSeat == -1
NoPlayer == "None"

----------------------------------------------------------------------------
(* Inputs of the state-update API *)

\* setup_game fills seats 0, 1 and 2.  The caller records every action for
\* the hero's seat and for one opponent's seat, and a Raise for a seat that
\* is never seated.
SetupSeats == {0, 1, 2}
UnseatedSeat == 3
CallerSeats == {0, 1}
RecordInputs == (CallerSeats \X Action) \cup {<<UnseatedSeat, RAISE>>}

\* A bet size the caller may pass (game_runner passes big_blind * 3).
BetAmount == 60

\* amount is Optional[float]: None occurs with Fold, Check and All-in.
AmountsOf(action) == IF action \in {CALL, RAISE} THEN {BetAmount} ELSE {NoAmount}

\* Streets the caller may pass to new_street.
StreetInputs == {PREFLOP, FLOP}

----------------------------------------------------------------------------
(* table_state.Player *)

Player(stack, position, in_hand, last_action, last_bet_size) ==
    [stack |-> stack, position |-> position,
     has_position |-> position \in {BUTTON, "CO"},
     in_hand |-> in_hand, last_action |-> last_action,
     last_bet_size |-> last_bet_size]

Seated == DOMAIN players

----------------------------------------------------------------------------
(* betting_action_symbols.BettingActionSymbols *)

EmptyByStreet == [s \in Street |-> <<>>]

\* The elements of a list: "for action_data in <list>".
Range(seq) == {seq[i] : i \in 1..Len(seq)}

BettingActionSymbols_reset ==
    [actions_by_street |-> EmptyByStreet,
     bot_actions_by_street |-> EmptyByStreet,
     opponent_actions_by_street |-> EmptyByStreet,
     last_aggressor_by_street |-> [s \in Street |-> NoPlayer],
     is_continuation_bet_situation |-> FALSE,
     is_check_raise_situation |-> FALSE,
     is_three_bet_situation |-> FALSE,
     is_four_bet_situation |-> FALSE,
     is_donk_bet_situation |-> FALSE,
     is_probe_bet_situation |-> FALSE,
     is_float_bet_situation |-> FALSE,
     raises_current_street |-> 0,
     calls_current_street |-> 0,
     checks_current_street |-> 0,
     bot_last_action |-> NoAction,
     bot_last_action_by_street |-> [s \in Street |-> NoAction]]

\* Faulty variant: an All-in on the preflop is taken for a Raise.
_bot_raised_preflop_or_all_in(b) ==
    \E d \in Range(b.bot_actions_by_street[PREFLOP]) : d.action \in {RAISE, ALL_IN}

_bot_raised_preflop(b) ==
    \E d \in Range(b.bot_actions_by_street[PREFLOP]) : d.action = RAISE

_player_checked_this_street(b, player, street) ==
    \E d \in Range(b.actions_by_street[street]) : d.player = player /\ d.action = CHECK

\* The loop sets player_checked at the player's first CHECK and returns True
\* at the first RAISE (by anyone) found at a later index of the street's list.
_bet_after_player_checked(b, player, street) ==
    LET acts == b.actions_by_street[street]
    IN \E i \in 1..Len(acts) :
          /\ acts[i].player = player /\ acts[i].action = CHECK
          /\ \E j \in (i+1)..Len(acts) :
                /\ acts[j].action = RAISE
                /\ ~(acts[j].player = player /\ acts[j].action = CHECK)

_is_out_of_position(player) == TRUE

previous_street(street) ==
    IF street = FLOP THEN PREFLOP
    ELSE IF street = TURN THEN FLOP
    ELSE IF street = RIVER THEN TURN
    ELSE 0

_was_bot_aggressor_previous_street(b, street) ==
    IF street = PREFLOP THEN FALSE
    ELSE IF previous_street(street) = 0 THEN FALSE
    ELSE b.last_aggressor_by_street[previous_street(street)] = "Bot"

_opponent_checked_this_street(b, street) ==
    \E d \in Range(b.opponent_actions_by_street[street]) : d.action = CHECK

_bot_called_previous_street(b, street) ==
    IF street = PREFLOP THEN FALSE
    ELSE IF previous_street(street) = 0 THEN FALSE
    ELSE \E d \in Range(b.bot_actions_by_street[previous_street(street)]) : d.action = CALL

\* Each flag is only ever assigned True here; a flag that is not assigned
\* keeps its value.
_update_betting_patterns(b, street, player, action, is_bot) ==
    [b EXCEPT
       !.is_continuation_bet_situation =
            IF street = FLOP /\ action = RAISE /\ is_bot /\ _bot_raised_preflop(b)
            THEN TRUE ELSE @,
       !.is_check_raise_situation =
            IF /\ action = RAISE
               /\ _player_checked_this_street(b, player, street)
               /\ _bet_after_player_checked(b, player, street)
            THEN TRUE ELSE @,
       !.is_three_bet_situation =
            IF action = RAISE /\ b.raises_current_street >= 2 THEN TRUE ELSE @,
       !.is_four_bet_situation =
            IF action = RAISE /\ b.raises_current_street >= 3 THEN TRUE ELSE @,
       !.is_donk_bet_situation =
            IF /\ street # PREFLOP /\ action = RAISE /\ ~is_bot
               /\ _is_out_of_position(player)
               /\ _was_bot_aggressor_previous_street(b, street)
            THEN TRUE ELSE @,
       !.is_probe_bet_situation =
            IF /\ street # PREFLOP /\ action = RAISE /\ is_bot
               /\ ~_is_out_of_position(player)
               /\ _opponent_checked_this_street(b, street)
            THEN TRUE ELSE @,
       !.is_float_bet_situation =
            IF /\ street # PREFLOP /\ action = RAISE /\ is_bot
               /\ _bot_called_previous_street(b, street)
            THEN TRUE ELSE @]

BettingActionSymbols_record_action(b, street, player, action, amount, is_bot) ==
    LET action_data == [player |-> player, action |-> action, amount |-> amount]
        appended ==
            [b EXCEPT
               !.actions_by_street[street] = Append(@, action_data),
               !.bot_actions_by_street[street] = IF is_bot THEN Append(@, action_data) ELSE @,
               !.bot_last_action = IF is_bot THEN action ELSE @,
               !.bot_last_action_by_street[street] = IF is_bot THEN action ELSE @,
               !.opponent_actions_by_street[street] = IF is_bot THEN @ ELSE Append(@, action_data)]
        counted ==
            [appended EXCEPT
               !.raises_current_street = IF action \in {RAISE, ALL_IN} THEN @ + 1 ELSE @,
               !.last_aggressor_by_street[street] = IF action \in {RAISE, ALL_IN} THEN player ELSE @,
               !.calls_current_street = IF action = CALL THEN @ + 1 ELSE @,
               !.checks_current_street = IF action = CHECK THEN @ + 1 ELSE @]
    IN _update_betting_patterns(counted, street, player, action, is_bot)

----------------------------------------------------------------------------
(* history_symbols.HistorySymbols *)

Infinity == 1000000000

ZeroByStreet == [s \in Street |-> 0]

HistorySymbols_reset ==
    [bots_last_action |-> NoAction,
     bots_last_action_by_street |-> [s \in Street |-> NoAction],
     bets_by_street |-> ZeroByStreet,
     calls_by_street |-> ZeroByStreet,
     checks_by_street |-> ZeroByStreet,
     raises_by_street |-> ZeroByStreet,
     action_sequence |-> EmptyByStreet,
     opponents_last_action |-> NoAction,
     opponents_last_action_by_street |-> [s \in Street |-> NoAction],
     starting_stack_size |-> 0,
     max_opponent_stack_size |-> 0,
     min_opponent_stack_size |-> Infinity]

\* Faulty variant: an All-in is not counted among the raises of the street.
HistorySymbols_record_action_raise_only(h, street, player, action, amount, is_bot, stack_size) ==
    LET action_data == [player |-> player, action |-> action, amount |-> amount]
    IN [h EXCEPT
          !.action_sequence[street] = Append(@, action_data),
          !.raises_by_street[street] = IF action = RAISE THEN @ + 1 ELSE @,
          !.calls_by_street[street] = IF action = CALL THEN @ + 1 ELSE @,
          !.checks_by_street[street] = IF action = CHECK THEN @ + 1 ELSE @,
          !.bots_last_action = IF is_bot THEN action ELSE @,
          !.bots_last_action_by_street[street] = IF is_bot THEN action ELSE @,
          !.opponents_last_action = IF is_bot THEN @ ELSE action,
          !.opponents_last_action_by_street[street] = IF is_bot THEN @ ELSE action,
          !.max_opponent_stack_size = IF ~is_bot /\ stack_size > @ THEN stack_size ELSE @,
          !.min_opponent_stack_size = IF ~is_bot /\ stack_size < @ THEN stack_size ELSE @]

\* action_sequence[s] stands for preflop_action_sequence, flop_action_sequence,
\* turn_action_sequence and river_action_sequence.
HistorySymbols_record_action(h, street, player, action, amount, is_bot, stack_size) ==
    LET action_data == [player |-> player, action |-> action, amount |-> amount]
    IN [h EXCEPT
          !.action_sequence[street] = Append(@, action_data),
          !.raises_by_street[street] = IF action \in {RAISE, ALL_IN} THEN @ + 1 ELSE @,
          !.calls_by_street[street] = IF action = CALL THEN @ + 1 ELSE @,
          !.checks_by_street[street] = IF action = CHECK THEN @ + 1 ELSE @,
          !.bots_last_action = IF is_bot THEN action ELSE @,
          !.bots_last_action_by_street[street] = IF is_bot THEN action ELSE @,
          !.opponents_last_action = IF is_bot THEN @ ELSE action,
          !.opponents_last_action_by_street[street] = IF is_bot THEN @ ELSE action,
          !.max_opponent_stack_size = IF ~is_bot /\ stack_size > @ THEN stack_size ELSE @,
          !.min_opponent_stack_size = IF ~is_bot /\ stack_size < @ THEN stack_size ELSE @]

set_starting_stack_size(h, stack_size) == [h EXCEPT !.starting_stack_size = stack_size]

----------------------------------------------------------------------------
(* position_symbols.PositionSymbols *)

\* A Python dict is a function whose domain is the set of keys.
EmptyDict == [k \in {} |-> 0]
DictSet(d, k, v) == (k :> v) @@ d
DictGet(d, k, default) == IF k \in DOMAIN d THEN d[k] ELSE default

PositionSymbols_reset ==
    [_hero_seat |-> -1, _button_seat |-> -1, _sb_seat |-> -1, _bb_seat |-> -1,
     _utg_seat |-> -1, _total_players |-> 0, _active_players |-> 0,
     _current_street |-> PREFLOP, _last_aggressor |-> -1,
     _first_caller |-> -1, _last_caller |-> -1,
     _first_raiser |-> -1, _last_raiser |-> -1,
     _player_positions |-> EmptyDict, _player_actions |-> EmptyDict,
     _player_bet_sizes |-> EmptyDict, _player_in_hand |-> EmptyDict,
     _player_bet_positions |-> EmptyDict]

PositionSymbols_record_action(p, seat, action, bet_size, bet_position) ==
    [p EXCEPT
       !._player_actions = DictSet(@, seat, action),
       !._player_bet_sizes = DictSet(@, seat, bet_size),
       !._player_bet_positions = DictSet(@, seat, bet_position),
       !._last_aggressor = IF action = RAISE THEN seat ELSE @,
       !._first_raiser = IF action = RAISE /\ @ = -1 THEN seat ELSE @,
       !._last_raiser = IF action = RAISE THEN seat ELSE @,
       !._first_caller = IF action = CALL /\ @ = -1 THEN seat ELSE @,
       !._last_caller = IF action = CALL THEN seat ELSE @,
       !._player_in_hand = IF action = FOLD THEN DictSet(@, seat, FALSE) ELSE @,
       !._active_players = IF action = FOLD THEN @ - 1 ELSE @]

----------------------------------------------------------------------------
(* spr_symbols.SPRSymbols *)

SPRSymbols_reset ==
    [_hero_seat |-> -1, _hero_stack |-> 0, _pot_size |-> 0,
     _current_street |-> PREFLOP, _player_stacks |-> EmptyDict,
     _player_in_hand |-> EmptyDict, _bb_size |-> 20]

----------------------------------------------------------------------------
(* table_state.TableState *)

StartingStack == 30000

PlayerName(seat) ==
    IF seat = hero_seat THEN "Bot"
    ELSE IF seat = 0 THEN "Player_0"
    ELSE IF seat = 1 THEN "Player_1"
    ELSE IF seat = 2 THEN "Player_2"
    ELSE "Player_3"

\* '' is the empty sequence, a card 'As' the pair <<"A", "s">>.
NoCard == <<>>
NoHeroCards == <<NoCard, NoCard>>

\* Number of records held by the per-street lists of the current hand.
TotalRecorded ==
    Len(betting_symbols.actions_by_street[PREFLOP]) + Len(betting_symbols.actions_by_street[FLOP])
    + Len(betting_symbols.actions_by_street[TURN]) + Len(betting_symbols.actions_by_street[RIVER])

Call(op, seat, action, amount, street, dropped, raised) ==
    [op |-> op, seat |-> seat, action |-> action, amount |-> amount,
     street |-> street, dropped |-> dropped, raised |-> raised]

\* TableState.__init__
Init ==
    /\ players = EmptyDict
    /\ hero_seat = -1
    /\ button_seat = -1
    /\ total_players = 0
    /\ active_players = 0
    /\ pot_size = 0
    /\ current_street = PREFLOP
    /\ current_bet = 0
    /\ min_raise = 0
    /\ last_aggressor = NoSeat
    /\ betting_symbols = BettingActionSymbols_reset
    /\ history_symbols = HistorySymbols_reset
    /\ position_symbols = PositionSymbols_reset
    /\ spr_symbols = SPRSymbols_reset
    /\ hero_cards = NoHeroCards
    /\ community_cards = <<>>
    /\ last_call = Call("__init__", NoSeat, NoAction, NoAmount, 0, 0, "None")
    /\ hand_log = <<>>

\* Faulty variant: the closing loop of new_hand leaves in_hand alone.
ResetPlayers_keeps_folded(ps) ==
    [seat \in DOMAIN ps |-> [ps[seat] EXCEPT !.last_action = NoAction, !.last_bet_size = 0]]

\* The players after the loop that closes new_hand.
ResetPlayers(ps) ==
    [seat \in DOMAIN ps |->
        [ps[seat] EXCEPT !.last_action = NoAction, !.last_bet_size = 0, !.in_hand = TRUE]]

\* The part of new_hand that does not depend on the state before the call.
NewHandCommon ==
    /\ pot_size' = 0
    /\ current_street' = PREFLOP
    /\ community_cards' = <<>>
    /\ hero_cards' = NoHeroCards
    /\ current_bet' = 0
    /\ min_raise' = 0
    /\ last_aggressor' = NoSeat
    /\ betting_symbols' = BettingActionSymbols_reset
    /\ position_symbols' = PositionSymbols_reset
    /\ spr_symbols' = SPRSymbols_reset

new_hand ==
    /\ NewHandCommon
    /\ active_players' = total_players
    /\ history_symbols' =
         IF hero_seat \in Seated
         THEN set_starting_stack_size(HistorySymbols_reset, players[hero_seat].stack)
         ELSE HistorySymbols_reset
    /\ players' = ResetPlayers(players)
    /\ UNCHANGED <<hero_seat, button_seat, total_players>>
    /\ last_call' = Call("new_hand", NoSeat, NoAction, NoAmount, 0, TotalRecorded, "None")
    /\ hand_log' = <<>>

\* GameRunner.setup_game: a fresh TableState, the seats, then new_hand().
SetupPlayers ==
    [seat \in SetupSeats |->
        Player(StartingStack,
               IF seat = 0 THEN BUTTON ELSE IF seat = 1 THEN SMALL_BLIND ELSE BIG_BLIND,
               TRUE, NoAction, 0)]

setup_game ==
    /\ NewHandCommon
    /\ hero_seat' = 1
    /\ button_seat' = 0
    /\ total_players' = 3
    /\ active_players' = 3
    /\ players' = SetupPlayers
    /\ history_symbols' = set_starting_stack_size(HistorySymbols_reset, StartingStack)
    /\ last_call' = Call("setup_game", NoSeat, NoAction, NoAmount, 0, 0, "None")
    /\ hand_log' = <<>>

\* Faulty variant: any action other than a Fold puts the player back in the hand.
record_action_players_revives(seat, action, amount) ==
    [players EXCEPT
       ![seat].last_action = action,
       ![seat].last_bet_size = IF amount # NoAmount THEN amount ELSE @,
       ![seat].in_hand = (action # FOLD)]

\* record_action: the player's fields after "Update player's last action" and
\* the FOLD branch.
record_action_players(seat, action, amount) ==
    [players EXCEPT
       ![seat].last_action = action,
       ![seat].last_bet_size = IF amount # NoAmount THEN amount ELSE @,
       ![seat].in_hand = IF action = FOLD THEN FALSE ELSE @]

\* Faulty variant: an All-in does not make the player the aggressor.
record_action_last_aggressor_raise_only(seat, action) ==
    IF action = RAISE THEN seat ELSE last_aggressor

\* record_action: last_aggressor after the RAISE / ALL_IN branch.
record_action_last_aggressor(seat, action) ==
    IF action \in {RAISE, ALL_IN} THEN seat ELSE last_aggressor

record_action(seat, action, amount) ==
    /\ TotalRecorded < MaxActions
    /\ last_call' = Call("record_action", seat, action, amount, current_street, 0, "None")
    /\ IF seat \notin Seated
       THEN UNCHANGED <<players, hero_seat, button_seat, total_players, active_players,
                        pot_size, current_street, current_bet, min_raise, last_aggressor,
                        betting_symbols, history_symbols, position_symbols, spr_symbols,
                        hero_cards, community_cards, hand_log>>
       ELSE
         LET player_name == PlayerName(seat)
             is_bot == seat = hero_seat
             recorded == BettingActionSymbols_record_action(
                             betting_symbols, current_street, player_name, action, amount, is_bot)
             bet_position == Len(recorded.actions_by_street[current_street]) - 1
         IN /\ players' = record_action_players(seat, action, amount)
            /\ active_players' = IF action = FOLD THEN active_players - 1 ELSE active_players
            /\ last_aggressor' = record_action_last_aggressor(seat, action)
            /\ current_bet' = IF action \in {RAISE, ALL_IN} /\ amount # NoAmount
                              THEN amount ELSE current_bet
            /\ betting_symbols' = recorded
            /\ history_symbols' = HistorySymbols_record_action(
                                     history_symbols, current_street, player_name, action,
                                     amount, is_bot, players[seat].stack)
            /\ position_symbols' = PositionSymbols_record_action(
                                      position_symbols, seat, action,
                                      IF amount = NoAmount THEN 0 ELSE amount, bet_position)
            /\ hand_log' = Append(hand_log, [street |-> current_street, seat |-> seat,
                                              action |-> action, is_bot |-> is_bot])
            /\ UNCHANGED <<hero_seat, button_seat, total_players, pot_size, current_street,
                           min_raise, spr_symbols, hero_cards, community_cards>>

\* Faulty variant: new_street starts the history trackers afresh.
new_street_resets_history(street) ==
    /\ current_street' = street
    /\ current_bet' = 0
    /\ min_raise' = 0
    /\ betting_symbols' = BettingActionSymbols_reset
    /\ history_symbols' = HistorySymbols_reset
    /\ UNCHANGED <<players, hero_seat, button_seat, total_players, active_players,
                   pot_size, last_aggressor, position_symbols, spr_symbols,
                   hero_cards, community_cards, hand_log>>
    /\ last_call' = Call("new_street", NoSeat, NoAction, NoAmount, street, 0, "AttributeError")

\* new_street assigns the three fields, refreshes the card trackers and then
\* reads self.sb_seat, an attribute that TableState never defines: the call
\* ends there with AttributeError, before any update_table_state call.
new_street(street) ==
    /\ current_street' = street
    /\ current_bet' = 0
    /\ min_raise' = 0
    /\ UNCHANGED <<players, hero_seat, button_seat, total_players, active_players,
                   pot_size, last_aggressor, betting_symbols, history_symbols,
                   position_symbols, spr_symbols, hero_cards, community_cards, hand_log>>
    /\ last_call' = Call("new_street", NoSeat, NoAction, NoAmount, street, 0, "AttributeError")

Next ==
    \/ setup_game
    \/ new_hand
    \/ \E input \in RecordInputs : \E amount \in AmountsOf(input[2]) :
          record_action(input[1], input[2], amount)
    \/ \E street \in StreetInputs : new_street(street)

Spec == Init /\ [][Next]_vars

----------------------------------------------------------------------------
(* hand_evaluator.HandEvaluator: cards and the five-card score.            *)
(* A card 'As' is <<"A", "s">>: card[0] is card[1] here, card[1] is card[2]. *)

RANKS == <<"2", "3", "4", "5", "6", "7", "8", "9", "T", "J", "Q", "K", "A">>

\* self.rank_values[rank]: the index of the rank in RANKS, '2' -> 0 ... 'A' -> 12.
rank_values(rank) == (CHOOSE i \in 1..Len(RANKS) : RANKS[i] = rank) - 1

\* self.rank_values.get(rank, 0)
_rank_to_number(rank) == IF rank \in Range(RANKS) THEN rank_values(rank) ELSE 0

\* The rank characters in code-point order, the order max() puts strings in.
CodePointOrder == <<"2", "3", "4", "5", "6", "7", "8", "9", "A", "J", "K", "Q", "T">>

ord(rank) == CHOOSE i \in 1..Len(CodePointOrder) : CodePointOrder[i] = rank

RanksOf(cards) == [i \in 1..Len(cards) |-> cards[i][1]]
SuitsOf(cards) == [i \in 1..Len(cards) |-> cards[i][2]]
ValuesOf(cards) == [i \in 1..Len(cards) |-> rank_values(cards[i][1])]
NumbersOf(cards) == [i \in 1..Len(cards) |-> _rank_to_number(cards[i][1])]

\* sorted(list), list.count(x), max(), min(), sorted(set(list))
Sorted(seq) == SortSeq(seq, LAMBDA a, b : a < b)
Count(seq, x) == Cardinality({i \in 1..Len(seq) : seq[i] = x})
Max(S) == CHOOSE x \in S : \A y \in S : y <= x
Min(S) == CHOOSE x \in S : \A y \in S : x <= y
SortedSet(S) == [i \in 1..Cardinality(S) |-> CHOOSE x \in S : Cardinality({y \in S : y < x}) = i - 1]

_is_straight(values) ==
    /\ Len(values) = 5
    /\ \/ values = <<0, 1, 2, 3, 12>>
       \/ values = [i \in 1..(Max(Range(values)) - Min(Range(values)) + 1) |->
                       Min(Range(values)) + i - 1]

\* rank_counts is filled from the sorted values, so "[r for r, c in ... if c == n][0]"
\* is the lowest value with that count.
_score_five_card_hand(hand) ==
    LET is_flush == Cardinality(Range(SuitsOf(hand))) = 1
        values == Sorted(ValuesOf(hand))
        is_straight == _is_straight(values)
        rank_counts == [v \in Range(values) |-> Count(values, v)]
        counts == [i \in 1..Len(SortedSet(DOMAIN rank_counts)) |->
                      rank_counts[SortedSet(DOMAIN rank_counts)[i]]]
        WithCount(c) == {v \in DOMAIN rank_counts : rank_counts[v] = c}
        kickers == SortedSet(WithCount(1))
        nk == Len(kickers)
    IN IF is_straight /\ is_flush THEN 8000000 + Max(Range(values))
       ELSE IF 4 \in Range(counts)
         THEN 7000000 + Min(WithCount(4)) * 13 + Min(WithCount(1))
       ELSE IF 3 \in Range(counts) /\ 2 \in Range(counts)
         THEN 6000000 + Min(WithCount(3)) * 13 + Min(WithCount(2))
       ELSE IF is_flush
         THEN 5000000 + values[1] + values[2] + values[3] + values[4] + values[5]
       ELSE IF is_straight THEN 4000000 + Max(Range(values))
       ELSE IF 3 \in Range(counts)
         THEN 3000000 + Min(WithCount(3)) * 169 + kickers[nk] * 13 + kickers[nk - 1]
       ELSE IF Count(counts, 2) = 2
         THEN 2000000 + Max(WithCount(2)) * 169 + Min(WithCount(2)) * 13 + Min(WithCount(1))
       ELSE IF 2 \in Range(counts)
         THEN 1000000 + Min(WithCount(2)) * 2197 + kickers[nk] * 169
                      + kickers[nk - 1] * 13 + kickers[nk - 2]
       ELSE values[5] + values[4] * 13 + values[3] * 169 + values[2] * 2197
            + values[1] * 28561

\* itertools.combinations(cards, 5) keeps the cards in their order.
_calculate_hand_score(cards) ==
    IF Len(cards) < 5 THEN 0
    ELSE LET hand(S) == [i \in 1..5 |-> cards[SortedSet(S)[i]]]
         IN Max({0} \cup {_score_five_card_hand(hand(S)) :
                            S \in {T \in SUBSET (1..Len(cards)) : Cardinality(T) = 5}})

----------------------------------------------------------------------------
(* poker_enums.HandStrength: a member is its value (the values are distinct). *)

HIGH_CARD == 0
ACE_HIGH == 5
KING_HIGH == 3
MIDDLE_PAIR_GOOD_KICKER == 25
TOP_PAIR_WEAK_KICKER == 35
TOP_PAIR_GOOD_KICKER == 40
OVERPAIR_WEAK == 45
OVERPAIR_STRONG == 50
TWO_PAIR_BOTTOM == 55
TWO_PAIR_TOP_AND_BOTTOM == 60
TWO_PAIR_TOP_AND_MIDDLE == 65
TWO_PAIR_TOP == 70
TRIPS == 73
SET == 75
TOP_SET == 80
STRAIGHT == 85
FLUSH == 90
FULL_HOUSE == 100
FOUR_OF_A_KIND == 110
STRAIGHT_FLUSH == 120
GUTSHOT == 12
DOUBLE_GUTSHOT == 22
OPEN_ENDED == 32
FLUSH_DRAW == 42
FLUSH_DRAW_WITH_OVERCARD == 44
FLUSH_DRAW_WITH_PAIR == 52
FLUSH_DRAW_WITH_STRAIGHT_DRAW == 62
NUT_FLUSH_DRAW == 72
TWO_OVERCARDS == 8
OVERCARDS_WITH_GUTSHOT == 18
OVERCARDS_WITH_STRAIGHT_DRAW == 38
PAIR_WITH_GUTSHOT == 28
PAIR_WITH_STRAIGHT_DRAW == 48
BACKDOOR_FLUSH_DRAW == 6
BACKDOOR_STRAIGHT_DRAW == 4
BACKDOOR_TWO_CARDS_STRAIGHT == 2

\* _evaluate_draws returning None
NoDraw == -1

is_draw(hs) ==
    hs \in {GUTSHOT, DOUBLE_GUTSHOT, OPEN_ENDED, FLUSH_DRAW, FLUSH_DRAW_WITH_OVERCARD,
            FLUSH_DRAW_WITH_PAIR, FLUSH_DRAW_WITH_STRAIGHT_DRAW, NUT_FLUSH_DRAW,
            TWO_OVERCARDS, OVERCARDS_WITH_GUTSHOT, OVERCARDS_WITH_STRAIGHT_DRAW,
            BACKDOOR_FLUSH_DRAW, BACKDOOR_STRAIGHT_DRAW, BACKDOOR_TWO_CARDS_STRAIGHT}

is_strong_made_hand(hs) == hs >= TWO_PAIR_TOP_AND_BOTTOM /\ ~is_draw(hs)

is_medium_made_hand(hs) ==
    hs >= TOP_PAIR_GOOD_KICKER /\ hs < TWO_PAIR_TOP_AND_BOTTOM /\ ~is_draw(hs)

is_strong_draw(hs) ==
    hs \in {FLUSH_DRAW_WITH_PAIR, FLUSH_DRAW_WITH_STRAIGHT_DRAW, NUT_FLUSH_DRAW,
            OVERCARDS_WITH_STRAIGHT_DRAW}

is_medium_draw(hs) ==
    hs \in {FLUSH_DRAW, FLUSH_DRAW_WITH_OVERCARD, OPEN_ENDED, DOUBLE_GUTSHOT,
            OVERCARDS_WITH_GUTSHOT}

----------------------------------------------------------------------------
(* hand_evaluator.HandEvaluator: hand categories.  A call either returns a *)
(* value or raises: [raised |-> "None", value |-> v] or [raised |-> error]. *)

Returns(v) == [raised |-> "None", value |-> v]
Throws(error) == [raised |-> error, value |-> NoDraw]

\* card[0] and card[1] of the unset card '' raise IndexError.
_evaluate_preflop(hole_cards) ==
    IF NoCard \in Range(hole_cards) THEN Throws("IndexError")
    ELSE LET ranks == NumbersOf(hole_cards)
             suited == hole_cards[1][2] = hole_cards[2][2]
             high_rank == Max(Range(ranks))
             low_rank == Min(Range(ranks))
             gap == high_rank - low_rank
         IN IF ranks[1] = ranks[2]
            THEN IF ranks[1] >= 13 THEN Returns(OVERPAIR_STRONG)
                 ELSE IF ranks[1] >= 11 THEN Returns(OVERPAIR_STRONG)
                 ELSE IF ranks[1] >= 9 THEN Returns(OVERPAIR_WEAK)
                 ELSE Returns(MIDDLE_PAIR_GOOD_KICKER)
            ELSE IF high_rank = 14
            THEN IF low_rank >= 12 THEN Returns(TOP_PAIR_GOOD_KICKER)
                 ELSE IF low_rank >= 10 THEN Returns(TOP_PAIR_WEAK_KICKER)
                 ELSE IF suited /\ low_rank >= 8 THEN Returns(TOP_PAIR_WEAK_KICKER)
                 ELSE IF suited THEN Returns(FLUSH_DRAW)
                 ELSE Returns(ACE_HIGH)
            ELSE IF high_rank = 13
            THEN IF low_rank >= 11 THEN Returns(TOP_PAIR_WEAK_KICKER)
                 ELSE IF suited /\ low_rank >= 9 THEN Returns(FLUSH_DRAW)
                 ELSE Returns(KING_HIGH)
            ELSE IF suited /\ gap <= 2 /\ low_rank >= 9 THEN Returns(FLUSH_DRAW)
            ELSE Returns(HIGH_CARD)

_made_with_hole_cards(hole_cards, board, count) ==
    \E i \in 1..Len(hole_cards) :
        Count(RanksOf(hole_cards \o board), hole_cards[i][1]) = count

_is_top_set(hole_cards, board) ==
    IF board = <<>> THEN FALSE
    ELSE LET top_rank == CHOOSE r \in Range(RanksOf(board)) :
                            \A q \in Range(RanksOf(board)) : ord(q) <= ord(r)
         IN hole_cards[1][1] = hole_cards[2][1] /\ hole_cards[2][1] = top_rank

_is_top_two_pair(hole_cards, board) ==
    LET board_ranks == Sorted(ValuesOf(board))
        hole_ranks == Range(ValuesOf(hole_cards))
    IN /\ Max(Range(board_ranks)) \in hole_ranks
       /\ \E i \in 1..(Len(board_ranks) - 1) : board_ranks[i] \in hole_ranks

_is_top_and_middle_pair(hole_cards, board) ==
    IF Len(board) < 3 THEN FALSE
    ELSE LET board_ranks == Sorted(NumbersOf(board))
             hole_ranks == Range(NumbersOf(hole_cards))
         IN /\ Max(Range(board_ranks)) \in hole_ranks
            /\ board_ranks[Len(board_ranks) - 1] \in hole_ranks

_is_top_and_bottom_pair(hole_cards, board) ==
    IF Len(board) < 2 THEN FALSE
    ELSE LET board_ranks == Sorted(NumbersOf(board))
             hole_ranks == Range(NumbersOf(hole_cards))
         IN /\ Max(Range(board_ranks)) \in hole_ranks
            /\ Min(Range(board_ranks)) \in hole_ranks

\* One pair: self._have_overpair is not a method of HandEvaluator (have_overpair is).
_evaluate_made_hand(hole_cards, board) ==
    LET all_cards == hole_cards \o board
        score == _calculate_hand_score(all_cards)
    IN IF Len(all_cards) >= 5 /\ NoCard \in Range(all_cards) THEN Throws("IndexError")
       ELSE IF score >= 8000000 THEN Returns(STRAIGHT_FLUSH)
       ELSE IF score >= 7000000 THEN Returns(FOUR_OF_A_KIND)
       ELSE IF score >= 6000000 THEN Returns(FULL_HOUSE)
       ELSE IF score >= 5000000 THEN Returns(FLUSH)
       ELSE IF score >= 4000000 THEN Returns(STRAIGHT)
       ELSE IF score >= 3000000
         THEN IF _made_with_hole_cards(hole_cards, board, 2)
              THEN IF _is_top_set(hole_cards, board) THEN Returns(TOP_SET) ELSE Returns(SET)
              ELSE Returns(TRIPS)
       ELSE IF score >= 2000000
         THEN IF _is_top_two_pair(hole_cards, board) THEN Returns(TWO_PAIR_TOP)
              ELSE IF _is_top_and_middle_pair(hole_cards, board)
                THEN Returns(TWO_PAIR_TOP_AND_MIDDLE)
              ELSE IF _is_top_and_bottom_pair(hole_cards, board)
                THEN Returns(TWO_PAIR_TOP_AND_BOTTOM)
              ELSE Returns(TWO_PAIR_BOTTOM)
       ELSE IF score >= 1000000 THEN Throws("AttributeError")
       ELSE IF hole_cards[1] = NoCard THEN Throws("IndexError")
       ELSE IF _rank_to_number(hole_cards[1][1]) = 14 THEN Returns(ACE_HIGH)
       ELSE IF _rank_to_number(hole_cards[1][1]) = 13 THEN Returns(KING_HIGH)
       ELSE Returns(HIGH_CARD)

\* The draw predicates: of the methods defined more than once in the class,
\* the last definition is the one in effect.
_evaluate_flush_draw(hole_cards, board) ==
    IF Len(board) >= 5 THEN FALSE
    ELSE LET suits == SuitsOf(hole_cards \o board)
         IN \E s \in Range(suits) : Count(suits, s) >= 4

_have_pair(hole_cards, board) ==
    LET ranks == RanksOf(hole_cards \o board)
    IN \E r \in Range(ranks) : Count(ranks, r) >= 2

_have_straight_draw(hole_cards, board) ==
    LET ranks == SortedSet(Range(NumbersOf(hole_cards \o board)))
    IN \E i \in 1..(Len(ranks) - 3) : ranks[i + 3] - ranks[i] = 3

_have_overcard(hole_cards, board) ==
    IF board = <<>> THEN FALSE
    ELSE LET max_board == Max(Range(NumbersOf(board)))
         IN \E i \in 1..Len(hole_cards) : _rank_to_number(hole_cards[i][1]) > max_board

_have_overcards(hole_cards, board) ==
    IF board = <<>> THEN FALSE
    ELSE LET max_board == Max(Range(NumbersOf(board)))
         IN \A i \in 1..Len(hole_cards) : _rank_to_number(hole_cards[i][1]) > max_board

_have_flush_draw(hole_cards, board) ==
    LET suits == SuitsOf(hole_cards \o board)
    IN \E s \in Range(suits) : Count(suits, s) = 4

SuitOrder == <<"h", "d", "c", "s">>

_is_nut_flush_draw(hole_cards, board) ==
    IF ~_have_flush_draw(hole_cards, board) THEN FALSE
    ELSE LET suits == SuitsOf(hole_cards \o board)
             first == Min({i \in 1..Len(SuitOrder) : Count(suits, SuitOrder[i]) >= 4})
             suit == SuitOrder[first]
         IN \E i \in 1..Len(hole_cards) :
               hole_cards[i][2] = suit /\ hole_cards[i][1] = "A"

\* The loop returns at the first index that starts four consecutive values.
_have_oesd(hole_cards, board) ==
    LET sorted == Sorted(ValuesOf(hole_cards \o board))
        ranks == IF 14 \in Range(sorted) THEN Append(sorted, 1) ELSE sorted
        starts == {i \in 1..(Len(ranks) - 3) :
                      \A j \in 0..3 : ranks[i + j] = ranks[i] + j}
    IN IF starts = {} THEN FALSE
       ELSE ranks[Min(starts)] - 1 >= 1 /\ ranks[Min(starts)] + 4 <= 14

_have_gutshot(hole_cards, board) ==
    LET ranks == SortedSet(Range(NumbersOf(hole_cards \o board)))
    IN \E i \in 1..(Len(ranks) - 2) : ranks[i + 2] - ranks[i] = 3

_have_double_gutshot(hole_cards, board) ==
    LET ranks == SortedSet(Range(NumbersOf(hole_cards \o board)))
    IN Cardinality({i \in 1..(Len(ranks) - 2) : ranks[i + 2] - ranks[i] = 3}) >= 2

_have_backdoor_flush_draw(hole_cards, board) ==
    IF Len(board) # 3 THEN FALSE
    ELSE LET suits == SuitsOf(hole_cards \o board)
         IN \E s \in Range(suits) : Count(suits, s) = 3

\* gaps = sum(ranks[i+1] - ranks[i] - 1), which telescopes over the sorted list.
_have_backdoor_straight_draw(hole_cards, board) ==
    IF Len(board) # 3 THEN FALSE
    ELSE LET ranks == Sorted(NumbersOf(hole_cards \o board))
         IN (ranks[Len(ranks)] - ranks[1]) - (Len(ranks) - 1) <= 3

_have_backdoor_two_cards_straight(hole_cards, board) ==
    IF Len(board) # 3 THEN FALSE
    ELSE LET ranks == Sorted(NumbersOf(hole_cards \o board))
         IN \E i \in 1..(Len(ranks) - 1) : ranks[i + 1] - ranks[i] <= 2

\* Every predicate reads card[0] or card[1] of each card.
_evaluate_draws(hole_cards, board) ==
    IF Len(board) >= 5 THEN Returns(NoDraw)
    ELSE IF NoCard \in Range(hole_cards \o board) THEN Throws("IndexError")
    ELSE IF _evaluate_flush_draw(hole_cards, board)
      THEN IF _have_pair(hole_cards, board) THEN Returns(FLUSH_DRAW_WITH_PAIR)
           ELSE IF _have_straight_draw(hole_cards, board)
             THEN Returns(FLUSH_DRAW_WITH_STRAIGHT_DRAW)
           ELSE IF _have_overcard(hole_cards, board) THEN Returns(FLUSH_DRAW_WITH_OVERCARD)
           ELSE IF _is_nut_flush_draw(hole_cards, board) THEN Returns(NUT_FLUSH_DRAW)
           ELSE Returns(FLUSH_DRAW)
    ELSE IF _have_oesd(hole_cards, board)
      THEN IF _have_overcards(hole_cards, board) THEN Returns(OVERCARDS_WITH_STRAIGHT_DRAW)
           ELSE IF _have_pair(hole_cards, board) THEN Returns(PAIR_WITH_STRAIGHT_DRAW)
           ELSE Returns(OPEN_ENDED)
    ELSE IF _have_gutshot(hole_cards, board)
      THEN IF _have_double_gutshot(hole_cards, board) THEN Returns(DOUBLE_GUTSHOT)
           ELSE IF _have_overcards(hole_cards, board) THEN Returns(OVERCARDS_WITH_GUTSHOT)
           ELSE IF _have_pair(hole_cards, board) THEN Returns(PAIR_WITH_GUTSHOT)
           ELSE Returns(GUTSHOT)
    ELSE IF Len(board) = 3 /\ _have_backdoor_flush_draw(hole_cards, board)
      THEN Returns(BACKDOOR_FLUSH_DRAW)
    ELSE IF Len(board) = 3 /\ _have_backdoor_straight_draw(hole_cards, board)
      THEN Returns(BACKDOOR_STRAIGHT_DRAW)
    ELSE IF Len(board) = 3 /\ _have_backdoor_two_cards_straight(hole_cards, board)
      THEN Returns(BACKDOOR_TWO_CARDS_STRAIGHT)
    ELSE IF _have_overcards(hole_cards, board) THEN Returns(TWO_OVERCARDS)
    ELSE Returns(NoDraw)

\* The choice between the made hand and the draw.  A HandStrength member is
\* truthy whatever its value, so "if draw_hand" only tests for None.
made_hand_or_draw(made_hand, draw_hand) ==
    IF made_hand.raised # "None" THEN made_hand
    ELSE IF made_hand.value >= TWO_PAIR_BOTTOM THEN made_hand
    ELSE IF draw_hand.raised # "None" THEN draw_hand
    ELSE IF draw_hand.value # NoDraw /\ is_strong_draw(draw_hand.value) THEN draw_hand
    ELSE IF draw_hand.value # NoDraw /\ draw_hand.value > made_hand.value
      THEN draw_hand
    ELSE made_hand

evaluate_hand_strength(hole_cards, board) ==
    IF board = <<>> THEN _evaluate_preflop(hole_cards)
    ELSE made_hand_or_draw(_evaluate_made_hand(hole_cards, board),
                           _evaluate_draws(hole_cards, board))

----------------------------------------------------------------------------
(* The cards that game_runner.GameRunner deals.                            *)

\* The deck's order after the shuffle: the hole cards and the five board cards.
Deals ==
    {[hero |-> <<<<"A", "s">>, <<"A", "h">>>>,
      board |-> <<<<"K", "d">>, <<"7", "c">>, <<"2", "s">>, <<"9", "h">>, <<"3", "d">>>>],
     [hero |-> <<<<"J", "s">>, <<"J", "h">>>>,
      board |-> <<<<"J", "d">>, <<"7", "c">>, <<"7", "s">>, <<"2", "h">>, <<"3", "d">>>>],
     [hero |-> <<<<"8", "s">>, <<"8", "h">>>>,
      board |-> <<<<"K", "d">>, <<"K", "c">>, <<"2", "s">>, <<"5", "h">>, <<"9", "d">>>>],
     [hero |-> <<<<"Q", "s">>, <<"J", "s">>>>,
      board |-> <<<<"T", "s">>, <<"9", "s">>, <<"2", "d">>, <<"3", "c">>, <<"4", "h">>>>],
     [hero |-> <<<<"7", "d">>, <<"2", "c">>>>,
      board |-> <<<<"A", "h">>, <<"K", "h">>, <<"9", "s">>, <<"4", "c">>, <<"3", "d">>>>],
     [hero |-> <<<<"K", "h">>, <<"9", "d">>>>,
      board |-> <<<<"K", "s">>, <<"9", "c">>, <<"4", "h">>, <<"2", "d">>, <<"5", "s">>>>]}

\* The board that follows the hole cards in the deck (the last deal's board
\* when no hole cards were dealt).
BoardOf(hero) ==
    IF \E d \in Deals : d.hero = hero
    THEN (CHOOSE d \in Deals : d.hero = hero).board
    ELSE <<<<"K", "s">>, <<"9", "c">>, <<"4", "h">>, <<"2", "d">>, <<"5", "s">>>>

\* The hands that the deals put before the evaluator: the hole cards, dealt or
\* not, with no board, the flop, the turn or the river.
DealtHands ==
    {<<hero, SubSeq(BoardOf(hero), 1, n)>> :
        hero \in {d.hero : d \in Deals} \cup {NoHeroCards}, n \in {0, 3, 4, 5}}

\* evaluate_hand_strength is a pure function of the cards: its value on the
\* dealt hands is computed once.
hand_strength_of_dealt ==
    [hand \in DealtHands |-> evaluate_hand_strength(hand[1], hand[2])]

HandEvaluator_evaluate_hand_strength(hole_cards, board) ==
    IF <<hole_cards, board>> \in DealtHands
    THEN hand_strength_of_dealt[<<hole_cards, board>>]
    ELSE evaluate_hand_strength(hole_cards, board)

----------------------------------------------------------------------------
(* Getters of the trackers that the decision policy reads.                 *)

raises_since_last_play(b, street) ==
    IF Len(b.bot_actions_by_street[street]) = 0 THEN b.raises_current_street
    ELSE LET bot_actions == b.bot_actions_by_street[street]
             acts == b.actions_by_street[street]
             found == {i \in 1..Len(acts) :
                          acts[i].player = "Bot" /\ acts[i] = bot_actions[Len(bot_actions)]}
             last_bot_action_index == IF found = {} THEN 0 ELSE Min(found)
         IN Cardinality({i \in (last_bot_action_index + 1)..Len(acts) : acts[i].action = RAISE})

\* BettingActionSymbols.bot_is_last_raiser: true if any street's last
\* aggressor is the bot (the loop over the reversed streets returns at the
\* first such street and skips the others).
bot_is_last_raiser(b) ==
    \E street \in Street : b.last_aggressor_by_street[street] = "Bot"

NoPosition == "None"

PositionSymbols_get_hero_position(p) == DictGet(p._player_positions, p._hero_seat, NoPosition)

is_middle_position(p) == PositionSymbols_get_hero_position(p) = "CO"

is_late_position(p) == PositionSymbols_get_hero_position(p) \in {BUTTON, SMALL_BLIND}

get_position_relative_to_button(p) ==
    IF p._hero_seat = -1 \/ p._button_seat = -1 THEN -1
    ELSE (p._hero_seat - p._button_seat) % p._total_players

\* The seats after (step 1) or before (step -1) a seat, in the order the
\* "while seat != start" loops visit them.
SeatsFrom(start, step, n) == [k \in 1..(n - 1) |-> (start + step * k) % n]

\* _current_street is assigned by reset and by update_table_state only, and
\* new_street raises before it calls update_table_state; the tracker is on
\* the preflop in every state.
is_first_to_act(p) ==
    IF p._current_street = PREFLOP THEN p._hero_seat = p._utg_seat
    ELSE IF DictGet(p._player_in_hand, p._sb_seat, FALSE) THEN p._hero_seat = p._sb_seat
    ELSE LET order == SeatsFrom(p._sb_seat, 1, p._total_players)
             hits == {k \in 1..Len(order) : DictGet(p._player_in_hand, order[k], FALSE)}
         IN IF hits = {} THEN FALSE ELSE p._hero_seat = order[Min(hits)]

is_last_to_act(p) ==
    IF p._current_street = PREFLOP THEN p._hero_seat = p._bb_seat
    ELSE IF DictGet(p._player_in_hand, p._button_seat, FALSE)
      THEN p._hero_seat = p._button_seat
    ELSE LET order == SeatsFrom(p._button_seat, -1, p._total_players)
             hits == {k \in 1..Len(order) : DictGet(p._player_in_hand, order[k], FALSE)}
         IN IF hits = {} THEN FALSE ELSE p._hero_seat = order[Min(hits)]

is_in_position_vs_aggressor(p) ==
    IF p._last_aggressor = -1 \/ p._hero_seat = -1 THEN FALSE
    ELSE IF p._current_street = PREFLOP
      THEN get_position_relative_to_button(p)
              < (p._last_aggressor - p._button_seat) % p._total_players
    ELSE (p._hero_seat - p._sb_seat) % p._total_players
            > (p._last_aggressor - p._sb_seat) % p._total_players

is_in_position_vs_callers(p) ==
    IF p._hero_seat = -1 THEN FALSE
    ELSE LET callers == {seat \in DOMAIN p._player_actions :
                            /\ p._player_actions[seat] = CALL
                            /\ DictGet(p._player_in_hand, seat, FALSE)}
         IN IF p._current_street = PREFLOP
            THEN \A caller \in callers :
                    get_position_relative_to_button(p)
                       < (caller - p._button_seat) % p._total_players
            ELSE \A caller \in callers :
                    (p._hero_seat - p._sb_seat) % p._total_players
                       > (caller - p._sb_seat) % p._total_players

\* Amounts and pot fractions are fixed-point numbers, in ten-thousandths:
\* the multipliers of the policy and their products have at most four decimals.
AmountUnit == 10000

\* A Stack-to-Pot Ratio is float('inf') or the fraction num / den.
calculate_spr(s, seat) ==
    IF seat \notin DOMAIN s._player_stacks \/ s._pot_size = 0
    THEN [inf |-> TRUE, num |-> 0, den |-> 1]
    ELSE [inf |-> FALSE, num |-> s._player_stacks[seat], den |-> s._pot_size]

get_spr_category(spr) ==
    IF ~spr.inf /\ spr.num <= 3 * spr.den THEN "very_low"
    ELSE IF ~spr.inf /\ spr.num <= 6 * spr.den THEN "low"
    ELSE IF ~spr.inf /\ spr.num <= 10 * spr.den THEN "medium"
    ELSE IF ~spr.inf /\ spr.num <= 15 * spr.den THEN "high"
    ELSE "very_high"

get_hero_spr_category(s) == get_spr_category(calculate_spr(s, s._hero_seat))

\* hand_strength is in tenths (0.8 is 8); the result is a fraction of the pot.
calculate_optimal_bet_size(spr, hand_strength) ==
    LET spr_category == get_spr_category(spr)
        sizes == IF spr_category = "very_low" THEN <<10000, 7500, 5000>>
                 ELSE IF spr_category = "low" THEN <<7500, 6600, 5000>>
                 ELSE IF spr_category = "medium" THEN <<6600, 5000, 3300>>
                 ELSE IF spr_category = "high" THEN <<5000, 3300, 2500>>
                 ELSE <<3300, 2500, 2500>>
    IN IF hand_strength >= 8 THEN sizes[1]
       ELSE IF hand_strength >= 6 THEN sizes[2]
       ELSE IF hand_strength >= 4 THEN sizes[3]
       ELSE 0

calculate_hero_optimal_bet_size(s, hand_strength) ==
    calculate_optimal_bet_size(calculate_spr(s, s._hero_seat), hand_strength)

\* The commitment thresholds, in hundredths.
get_commitment_threshold(spr) ==
    LET spr_category == get_spr_category(spr)
    IN IF spr_category = "very_low" THEN 50
       ELSE IF spr_category = "low" THEN 33
       ELSE IF spr_category = "medium" THEN 25
       ELSE IF spr_category = "high" THEN 20
       ELSE 15

\* bet_size / pot_size >= threshold, bet_size in ten-thousandths.
is_committed(s, seat, bet_size) ==
    IF seat \notin DOMAIN s._player_stacks \/ s._pot_size = 0 THEN FALSE
    ELSE bet_size * 100
            >= get_commitment_threshold(calculate_spr(s, seat)) * s._pot_size * AmountUnit

calculate_effective_stack(s) ==
    LET opponent_stacks == {s._player_stacks[seat] :
                               seat \in {t \in DOMAIN s._player_stacks :
                                            DictGet(s._player_in_hand, t, FALSE)
                                            /\ t # s._hero_seat}}
    IN IF opponent_stacks = {} THEN s._hero_stack
       ELSE Min({s._hero_stack, Min(opponent_stacks)})

\* get_effective_stack_in_bb() <= 20.0 and >= 80.0, multiplied out by _bb_size.
is_short_stacked(s) ==
    IF s._bb_size = 0 THEN TRUE ELSE calculate_effective_stack(s) <= 20 * s._bb_size

is_deep_stacked(s) ==
    IF s._bb_size = 0 THEN FALSE ELSE calculate_effective_stack(s) >= 80 * s._bb_size

----------------------------------------------------------------------------
(* gecko_bot.GeckoBot: the decision policy.  A decision is                 *)
(* [raised |-> "None", action, amount] or [raised |-> error]; amounts are  *)
(* in ten-thousandths of a chip.                                           *)

Decision(action, amount) == [raised |-> "None", action |-> action, amount |-> amount]
Error(error) == [raised |-> error, action |-> NoAction, amount |-> 0]

\* The members of poker_enums.BoardTexture.
BoardTexture ==
    {"BoardTexture.DRY", "BoardTexture.SEMI_WET", "BoardTexture.WET", "BoardTexture.VERY_WET"}

\* analyze_board returns {} for fewer than three cards and otherwise a dict
\* whose 'texture' is the BoardTexture member chosen by _classify_texture
\* (the classification is an input here).
analyze_board(board, texture) ==
    IF Len(board) < 3 THEN EmptyDict ELSE ("texture" :> texture)

\* "board_texture['texture'] == 'DRY'": KeyError if the key is missing, else
\* the comparison of the member with the str 'DRY'.
OnTexture(board_texture, if_dry, otherwise) ==
    IF "texture" \notin DOMAIN board_texture THEN Error("KeyError")
    ELSE IF board_texture["texture"] = "DRY" THEN if_dry
    ELSE otherwise

\* TableState.get_pot_odds: the fraction num / den.
get_pot_odds(call_amount) ==
    IF call_amount > 0 THEN [num |-> call_amount, den |-> pot_size + call_amount]
    ELSE [num |-> 0, den |-> 1]

\* Faulty variant: a bet of up to BetAmount is not seen as a bet.
_facing_bet_above_bet_amount == current_bet > BetAmount

_facing_bet == current_bet > 0

_facing_raise == raises_since_last_play(betting_symbols, current_street) > 0

_facing_donk_bet == IF ~_facing_bet THEN FALSE ELSE betting_symbols.is_donk_bet_situation

_facing_cbet ==
    IF current_street = PREFLOP THEN FALSE
    ELSE betting_symbols.is_continuation_bet_situation

_multiple_raisers ==
    Cardinality({i \in 1..Len(betting_symbols.actions_by_street[current_street]) :
                    betting_symbols.actions_by_street[current_street][i].action = RAISE}) >= 2

_in_position == is_late_position(position_symbols) \/ is_last_to_act(position_symbols)

\* equity_from_outs is in hundredths.  The hand was evaluated with the same
\* cards before any caller of _have_good_draw, so the evaluation returns.
_have_good_draw(equity_from_outs) ==
    LET hand_strength == HandEvaluator_evaluate_hand_strength(hero_cards, community_cards).value
    IN is_strong_draw(hand_strength) \/ is_medium_draw(hand_strength)
       \/ equity_from_outs >= 25

_getting_odds(equity_from_outs) ==
    LET pot_odds == get_pot_odds(current_bet)
    IN IF _have_good_draw(equity_from_outs)
       THEN \/ pot_odds.num * 100 <= equity_from_outs * pot_odds.den
            \/ pot_odds.num * 100 >= 20 * pot_odds.den
       ELSE pot_odds.num * 100 >= 30 * pot_odds.den

_getting_good_odds(equity_from_outs) ==
    LET pot_odds == get_pot_odds(current_bet)
    IN \/ pot_odds.num * 100 <= equity_from_outs * pot_odds.den
       \/ pot_odds.num * 100 >= 25 * pot_odds.den

\* min() of an empty sequence raises ValueError.
_good_implied_odds ==
    LET stacks == {players[seat].stack : seat \in {t \in Seated : players[t].in_hand}}
    IN IF stacks = {} THEN Throws("ValueError")
       ELSE Returns(IF Min(stacks) >= 15 * current_bet THEN 1 ELSE 0)

_raise_decision(multiplier) ==
    LET spr_category == get_hero_spr_category(spr_symbols)
        adjusted == IF spr_category = "very_low"
                      THEN Min({(multiplier * 15) \div 10, 10000})
                    ELSE IF spr_category = "low"
                      THEN Min({(multiplier * 12) \div 10, 7500})
                    ELSE IF spr_category = "high" THEN (multiplier * 8) \div 10
                    ELSE IF spr_category = "very_high" THEN (multiplier * 6) \div 10
                    ELSE multiplier
        raise_size == Max({min_raise * AmountUnit,
                           Min({pot_size * adjusted,
                                calculate_effective_stack(spr_symbols) * AmountUnit})})
    IN Decision(RAISE, raise_size)

call_decision == Decision(CALL, current_bet * AmountUnit)
fold_decision == Decision(FOLD, 0)
check_decision == Decision(CHECK, 0)

\* The unused locals of the method (hero_pos, hand, the history getters) are
\* read without effect and cannot raise once the hand has been evaluated.
_make_preflop_decision_on(hand, equity_from_outs) ==
    LET hand_strength == hand.value
        spr_category == get_hero_spr_category(spr_symbols)
        short == is_short_stacked(spr_symbols)
        deep == is_deep_stacked(spr_symbols)
        late_or_last == is_late_position(position_symbols) \/ is_last_to_act(position_symbols)
        implied == _good_implied_odds
    IN IF hand.raised # "None" THEN Error(hand.raised)
       ELSE IF hand_strength = OVERPAIR_STRONG
         THEN IF _facing_raise
              THEN IF _multiple_raisers
                   THEN IF short THEN _raise_decision(10000)
                        ELSE IF spr_category \in {"very_low", "low"} THEN _raise_decision(45000)
                        ELSE _raise_decision(40000)
                   ELSE IF short THEN _raise_decision(10000)
                   ELSE IF spr_category \in {"very_low", "low"} THEN _raise_decision(35000)
                   ELSE _raise_decision(30000)
              ELSE IF short THEN _raise_decision(10000)
              ELSE IF deep THEN _raise_decision(20000)
              ELSE _raise_decision(25000)
       ELSE IF hand_strength \in {OVERPAIR_WEAK, TOP_PAIR_GOOD_KICKER}
         THEN IF _facing_raise
              THEN IF _multiple_raisers
                   THEN IF _getting_good_odds(equity_from_outs) THEN call_decision
                        ELSE fold_decision
                   ELSE _raise_decision(30000)
              ELSE _raise_decision(25000)
       ELSE IF hand_strength \in {TOP_PAIR_WEAK_KICKER, MIDDLE_PAIR_GOOD_KICKER}
         THEN IF _facing_raise
              THEN IF _getting_good_odds(equity_from_outs) /\ ~_multiple_raisers
                   THEN call_decision ELSE fold_decision
              ELSE IF late_or_last THEN _raise_decision(25000)
              ELSE IF is_middle_position(position_symbols) /\ ~is_first_to_act(position_symbols)
                THEN call_decision
              ELSE fold_decision
       ELSE IF is_draw(hand_strength)
         THEN IF _facing_raise
              THEN IF ~_getting_good_odds(equity_from_outs) THEN fold_decision
                   ELSE IF implied.raised # "None" THEN Error(implied.raised)
                   ELSE IF implied.value = 1 /\ ~_multiple_raisers THEN call_decision
                   ELSE fold_decision
              ELSE IF late_or_last THEN _raise_decision(25000)
              ELSE IF /\ is_middle_position(position_symbols)
                      /\ is_in_position_vs_callers(position_symbols)
                THEN call_decision
              ELSE fold_decision
       ELSE fold_decision

_make_preflop_decision(equity_from_outs) ==
    _make_preflop_decision_on(HandEvaluator_evaluate_hand_strength(hero_cards, <<>>),
                              equity_from_outs)

_make_flop_decision_on(hand, board_texture, equity_from_outs) ==
    LET hand_strength == hand.value
        short == is_short_stacked(spr_symbols)
        deep == is_deep_stacked(spr_symbols)
        committed == is_committed(spr_symbols, spr_symbols._hero_seat,
                                  (pot_size * AmountUnit) \div 2)
        late_or_last == is_late_position(position_symbols) \/ is_last_to_act(position_symbols)
        strong_size == calculate_hero_optimal_bet_size(spr_symbols, 8)
        medium_size == IF deep
                       THEN (calculate_hero_optimal_bet_size(spr_symbols, 6) * 8) \div 10
                       ELSE calculate_hero_optimal_bet_size(spr_symbols, 6)
        draw_out_of_position ==
            IF /\ is_in_position_vs_aggressor(position_symbols)
               /\ is_in_position_vs_callers(position_symbols)
            THEN _raise_decision(5000) ELSE check_decision
        medium_facing_bet ==
            OnTexture(board_texture, call_decision,
                      IF _in_position THEN _raise_decision(25000) ELSE call_decision)
    IN IF hand.raised # "None" THEN Error(hand.raised)
       ELSE IF ~_facing_bet
         THEN IF is_strong_made_hand(hand_strength)
              THEN IF committed THEN _raise_decision((strong_size * 12) \div 10)
                   ELSE IF short THEN _raise_decision(10000)
                   ELSE OnTexture(board_texture,
                                  _raise_decision((strong_size * 8) \div 10),
                                  _raise_decision((strong_size * 11) \div 10))
              ELSE IF is_medium_made_hand(hand_strength)
              THEN IF late_or_last THEN _raise_decision(medium_size)
                   ELSE OnTexture(board_texture, _raise_decision(medium_size), check_decision)
              ELSE IF is_strong_draw(hand_strength)
              THEN IF late_or_last
                   THEN OnTexture(board_texture, draw_out_of_position, _raise_decision(5000))
                   ELSE draw_out_of_position
              ELSE check_decision
       ELSE IF _facing_donk_bet
         THEN IF is_strong_made_hand(hand_strength) THEN _raise_decision(30000)
              ELSE IF is_medium_made_hand(hand_strength) THEN medium_facing_bet
              ELSE IF is_strong_draw(hand_strength) /\ _getting_odds(equity_from_outs)
                THEN call_decision
              ELSE fold_decision
       ELSE IF _facing_cbet
         THEN IF is_strong_made_hand(hand_strength)
              THEN OnTexture(board_texture, _raise_decision(25000), _raise_decision(30000))
              ELSE IF is_medium_made_hand(hand_strength) THEN medium_facing_bet
              ELSE IF /\ \/ is_strong_draw(hand_strength)
                         \/ is_medium_draw(hand_strength) /\ _in_position
                      /\ _getting_odds(equity_from_outs)
                THEN OnTexture(board_texture, call_decision, _raise_decision(25000))
              ELSE fold_decision
       ELSE fold_decision

_make_flop_decision(equity_from_outs, texture) ==
    _make_flop_decision_on(HandEvaluator_evaluate_hand_strength(hero_cards, community_cards),
                          analyze_board(community_cards, texture), equity_from_outs)

_make_turn_decision_on(hand, board_texture, equity_from_outs) ==
    LET hand_strength == hand.value
    IN IF hand.raised # "None" THEN Error(hand.raised)
       ELSE IF ~_facing_bet
         THEN IF is_strong_made_hand(hand_strength)
              THEN OnTexture(board_texture, _raise_decision(6600), _raise_decision(7500))
              ELSE IF is_medium_made_hand(hand_strength) /\ _in_position
              THEN OnTexture(board_texture, _raise_decision(5000), check_decision)
              ELSE IF is_strong_draw(hand_strength) /\ _in_position
              THEN OnTexture(board_texture, check_decision, _raise_decision(5000))
              ELSE check_decision
       ELSE IF is_strong_made_hand(hand_strength)
         THEN OnTexture(board_texture, _raise_decision(25000), _raise_decision(30000))
       ELSE IF is_medium_made_hand(hand_strength)
         THEN OnTexture(board_texture, call_decision,
                        IF _in_position THEN _raise_decision(25000) ELSE call_decision)
       ELSE IF is_strong_draw(hand_strength) /\ _getting_odds(equity_from_outs)
         THEN OnTexture(board_texture, call_decision, _raise_decision(25000))
       ELSE fold_decision

_make_turn_decision(equity_from_outs, texture) ==
    _make_turn_decision_on(HandEvaluator_evaluate_hand_strength(hero_cards, community_cards),
                          analyze_board(community_cards, texture), equity_from_outs)

_make_river_decision_on(hand, board_texture, equity_from_outs) ==
    LET hand_strength == hand.value
    IN IF hand.raised # "None" THEN Error(hand.raised)
       ELSE IF ~_facing_bet
         THEN IF hand_strength >= TWO_PAIR_TOP
              THEN OnTexture(board_texture, _raise_decision(7500), _raise_decision(10000))
              ELSE IF hand_strength >= TOP_PAIR_GOOD_KICKER
              THEN OnTexture(board_texture,
                             IF _in_position THEN _raise_decision(5000) ELSE check_decision,
                             check_decision)
              ELSE check_decision
       ELSE IF hand_strength >= SET
         THEN OnTexture(board_texture, _raise_decision(25000), _raise_decision(30000))
       ELSE IF hand_strength >= TWO_PAIR_TOP_AND_MIDDLE
         THEN OnTexture(board_texture, call_decision,
                        IF _in_position THEN _raise_decision(25000) ELSE call_decision)
       ELSE IF hand_strength >= TOP_PAIR_GOOD_KICKER
         THEN OnTexture(board_texture,
                        IF _getting_good_odds(equity_from_outs)
                        THEN call_decision ELSE fold_decision,
                        fold_decision)
       ELSE fold_decision

_make_river_decision(equity_from_outs, texture) ==
    _make_river_decision_on(HandEvaluator_evaluate_hand_strength(hero_cards, community_cards),
                           analyze_board(community_cards, texture), equity_from_outs)

GeckoBot_make_decision(equity_from_outs, texture) ==
    IF current_street = PREFLOP THEN _make_preflop_decision(equity_from_outs)
    ELSE IF current_street = FLOP THEN _make_flop_decision(equity_from_outs, texture)
    ELSE IF current_street = TURN THEN _make_turn_decision(equity_from_outs, texture)
    ELSE _make_river_decision(equity_from_outs, texture)

----------------------------------------------------------------------------
(* A hand as game_runner.GameRunner plays it: the steps that assign the    *)
(* cards, the blinds and the pot around the state-update API, and the call *)
(* of the decision policy.                                                 *)

\* Records accepted per hand when decisions are taken.
MaxDecideActions == 2

\* The pot is not raised above this size.
MaxPot == 90

\* Times the blinds are posted from the stacks that setup_game fills.
MaxBlinds == 1

\* calculate_equity_from_outs, in hundredths: no outs, or eight outs on the flop.
Equities == {0, 32}

SMALL_BLIND_SIZE == 10
BIG_BLIND_SIZE == 20

\* _deal_cards: self.table_state.hero_cards = (deck.pop(), deck.pop())
deal_hero_cards(d) ==
    /\ community_cards = <<>>
    /\ hero_cards # d.hero
    /\ hero_cards' = d.hero
    /\ last_call' = Call("deal_hero_cards", NoSeat, NoAction, NoAmount, current_street, 0, "None")
    /\ UNCHANGED <<players, hero_seat, button_seat, total_players, active_players,
                   pot_size, current_street, current_bet, min_raise, last_aggressor,
                   betting_symbols, history_symbols, position_symbols, spr_symbols,
                   community_cards, hand_log>>

\* The flop is assigned as three cards, the turn and the river are appended.
deal_community_cards ==
    /\ Len(community_cards) < 5
    /\ community_cards' = IF community_cards = <<>>
                          THEN SubSeq(BoardOf(hero_cards), 1, 3)
                          ELSE Append(community_cards,
                                      BoardOf(hero_cards)[Len(community_cards) + 1])
    /\ last_call' = Call("deal_community_cards", NoSeat, NoAction, NoAmount,
                         current_street, 0, "None")
    /\ UNCHANGED <<players, hero_seat, button_seat, total_players, active_players,
                   pot_size, current_street, current_bet, min_raise, last_aggressor,
                   betting_symbols, history_symbols, position_symbols, spr_symbols,
                   hero_cards, hand_log>>

_post_blinds ==
    LET sb_seat == (button_seat + 1) % 3
        bb_seat == (button_seat + 2) % 3
    IN /\ {sb_seat, bb_seat} \subseteq Seated
       /\ pot_size = 0
       /\ players[bb_seat].stack > StartingStack - MaxBlinds * BIG_BLIND_SIZE
       /\ players' = [players EXCEPT ![sb_seat].stack = @ - SMALL_BLIND_SIZE,
                                     ![bb_seat].stack = @ - BIG_BLIND_SIZE]
       /\ pot_size' = pot_size + SMALL_BLIND_SIZE + BIG_BLIND_SIZE
       /\ current_bet' = BIG_BLIND_SIZE
       /\ last_call' = Call("_post_blinds", NoSeat, NoAction, NoAmount, current_street, 0, "None")
       /\ UNCHANGED <<hero_seat, button_seat, total_players, active_players,
                      current_street, min_raise, last_aggressor,
                      betting_symbols, history_symbols, position_symbols, spr_symbols,
                      hero_cards, community_cards, hand_log>>

\* self.table_state.pot_size += raise_size
pot_size_add(amount) ==
    /\ pot_size + amount <= MaxPot
    /\ pot_size' = pot_size + amount
    /\ last_call' = Call("pot_size_add", NoSeat, NoAction, amount, current_street, 0, "None")
    /\ UNCHANGED <<players, hero_seat, button_seat, total_players, active_players,
                   current_street, current_bet, min_raise, last_aggressor,
                   betting_symbols, history_symbols, position_symbols, spr_symbols,
                   hero_cards, community_cards, hand_log>>

\* The runner records a Raise of big_blind * 3 for the hero's or an opponent's seat.
record_raise(seat) ==
    /\ TotalRecorded < MaxDecideActions
    /\ record_action(seat, RAISE, BetAmount)

\* The runner moves to the flop, the turn and the river in this order.
next_street ==
    /\ current_street < RIVER
    /\ new_street(current_street + 1)

\* GeckoBot.make_decision changes nothing in the table state; the decision or
\* the error it raises is kept in last_call.  The runner takes one decision
\* and then acts on it: a second call in the same state decides the same.
make_decision ==
    /\ last_call.op # "make_decision"
    /\ \E equity_from_outs \in Equities : \E texture \in BoardTexture :
       \E decision \in {GeckoBot_make_decision(equity_from_outs, texture)} :
          last_call' = Call("make_decision", hero_seat, decision.action, decision.amount,
                            current_street, 0, decision.raised)
    /\ UNCHANGED <<players, hero_seat, button_seat, total_players, active_players,
                   pot_size, current_street, current_bet, min_raise, last_aggressor,
                   betting_symbols, history_symbols, position_symbols, spr_symbols,
                   hero_cards, community_cards, hand_log>>

NextDecide ==
    \/ setup_game
    \/ new_hand
    \/ \E d \in Deals : deal_hero_cards(d)
    \/ deal_community_cards
    \/ _post_blinds
    \/ pot_size_add(BetAmount)
    \/ \E seat \in CallerSeats : record_raise(seat)
    \/ next_street
    \/ make_decision

SpecDecide == Init /\ [][NextDecide]_vars

----------------------------------------------------------------------------
(* The state-update API with the seating and the board: update_player and  *)
(* update_community_cards next to new_hand, record_action and new_street.  *)

\* Records accepted per hand when players are reseated and boards are set.
MaxTableActions == 2

\* The caller moves the seat that setup_game gives hero between the button
\* and the small blind.
SeatingInputs == {<<1, BUTTON>>, <<1, SMALL_BLIND>>}

\* Boards the caller may set: none, or a flop.
BoardInputs == {<<>>, <<<<"K", "d">>, <<"7", "c">>, <<"2", "s">>>>}

\* TableState.update_player: the seat gets a new Player (hero_stack, which no
\* modelled operation reads, is left out).
update_player(seat, stack, position, in_hand) ==
    /\ players' = DictSet(players, seat, Player(stack, position, in_hand, NoAction, 0))
    /\ last_call' = Call("update_player", seat, NoAction, NoAmount, current_street, 0, "None")
    /\ UNCHANGED <<hero_seat, button_seat, total_players, active_players,
                   pot_size, current_street, current_bet, min_raise, last_aggressor,
                   betting_symbols, history_symbols, position_symbols, spr_symbols,
                   hero_cards, community_cards, hand_log>>

\* TableState.update_community_cards: the board is replaced; the card trackers
\* it refreshes are not part of the modelled state.
update_community_cards(cards) ==
    /\ community_cards' = cards
    /\ last_call' = Call("update_community_cards", NoSeat, NoAction, NoAmount,
                         current_street, 0, "None")
    /\ UNCHANGED <<players, hero_seat, button_seat, total_players, active_players,
                   pot_size, current_street, current_bet, min_raise, last_aggressor,
                   betting_symbols, history_symbols, position_symbols, spr_symbols,
                   hero_cards, hand_log>>

record_table_action(seat, action, amount) ==
    /\ TotalRecorded < MaxTableActions
    /\ record_action(seat, action, amount)

NextTable ==
    \/ setup_game
    \/ new_hand
    \/ \E seating \in SeatingInputs :
          update_player(seating[1], StartingStack, seating[2], TRUE)
    \/ \E cards \in BoardInputs : update_community_cards(cards)
    \/ \E input \in RecordInputs : \E amount \in AmountsOf(input[2]) :
          record_table_action(input[1], input[2], amount)
    \/ \E street \in StreetInputs : new_street(street)

SpecTable == Init /\ [][NextTable]_vars

----------------------------------------------------------------------------
(* Properties of the state-update API *)

IsPrefix(s, t) == Len(s) <= Len(t) /\ SubSeq(t, 1, Len(s)) = s

Recorded == last_call.op = "record_action" /\ last_call.seat \in Seated

Raises == {RAISE, ALL_IN}

\* Positions of hand_log, up to j, that hold a raise on the street of entry j.
RaisesOnStreetUpTo(j) ==
    {i \in 1..j : hand_log[i].street = hand_log[j].street /\ hand_log[i].action \in Raises}

\* The seat of the last Raise or All-in of the hand, NoSeat if there is none.
LastRaiserOf(log) ==
    LET at == {i \in 1..Len(log) : log[i].action \in Raises}
    IN IF at = {} THEN NoSeat ELSE log[CHOOSE i \in at : \A k \in at : k <= i].seat

\* C3: after new_hand returns, whatever the previous hand recorded, every
\* per-street action list of the history trackers is empty, every raise, call
\* and check counter is 0, every derived flag is false, every last-aggressor
\* entry (per street and table-level) is cleared, and every seated player is
\* in the hand with no last action.
C3_NewHandClearsHistory ==
    last_call.op = "new_hand" =>
        /\ \A s \in Street :
              /\ betting_symbols.actions_by_street[s] = <<>>
              /\ betting_symbols.bot_actions_by_street[s] = <<>>
              /\ betting_symbols.opponent_actions_by_street[s] = <<>>
              /\ history_symbols.action_sequence[s] = <<>>
              /\ history_symbols.raises_by_street[s] = 0
              /\ history_symbols.calls_by_street[s] = 0
              /\ history_symbols.checks_by_street[s] = 0
              /\ betting_symbols.last_aggressor_by_street[s] = NoPlayer
        /\ betting_symbols.raises_current_street = 0
        /\ betting_symbols.calls_current_street = 0
        /\ betting_symbols.checks_current_street = 0
        /\ ~betting_symbols.is_continuation_bet_situation
        /\ ~betting_symbols.is_check_raise_situation
        /\ ~betting_symbols.is_three_bet_situation
        /\ ~betting_symbols.is_four_bet_situation
        /\ ~betting_symbols.is_donk_bet_situation
        /\ ~betting_symbols.is_probe_bet_situation
        /\ ~betting_symbols.is_float_bet_situation
        /\ last_aggressor = NoSeat
        /\ position_symbols._last_aggressor = NoSeat
        /\ \A seat \in Seated : players[seat].in_hand /\ players[seat].last_action = NoAction

\* new_hand has just closed a hand in which three or more actions were recorded.
C3_Witness ==
    /\ last_call.op = "new_hand"
    /\ last_call.dropped >= 3
    /\ Seated # {}

\* C4: between two new_hand calls every per-street action list is append-only:
\* across a record_action or new_street call, what a list held before the call
\* is a prefix of what it holds after the call.
C4_ListsAppendOnly ==
    [][last_call'.op \in {"record_action", "new_street"} =>
         \A s \in Street :
            /\ IsPrefix(betting_symbols.actions_by_street[s], betting_symbols'.actions_by_street[s])
            /\ IsPrefix(betting_symbols.bot_actions_by_street[s],
                        betting_symbols'.bot_actions_by_street[s])
            /\ IsPrefix(betting_symbols.opponent_actions_by_street[s],
                        betting_symbols'.opponent_actions_by_street[s])
            /\ IsPrefix(history_symbols.action_sequence[s], history_symbols'.action_sequence[s])]_vars

\* new_street has run on a hand whose preflop list holds two or more actions.
C4_Witness ==
    /\ last_call.op = "new_street"
    /\ last_call.street = FLOP
    /\ Len(history_symbols.action_sequence[PREFLOP]) >= 2
    /\ Len(betting_symbols.actions_by_street[PREFLOP]) >= 2

\* C5: within a hand, once record_action has recorded a Fold for a seat, that
\* player's in_hand is false, and it is false in every later state of the hand,
\* whatever record_action (the same seat's included) and new_street calls follow.
C5_FoldedStaysOut ==
    \A i \in 1..Len(hand_log) :
        hand_log[i].action = FOLD => ~players[hand_log[i].seat].in_hand

\* A seat folded, and then another action was recorded for the same seat.
C5_Witness ==
    /\ Recorded
    /\ last_call.action # FOLD
    /\ \E i \in 1..Len(hand_log) : hand_log[i].action = FOLD /\ hand_log[i].seat = last_call.seat

\* C6: last_aggressor is the seat of the last Raise or All-in recorded in the
\* hand for a seated player, and none if the hand has no such record: Fold,
\* Check and Call records and new_street leave it alone, only new_hand clears it.
C6_LastAggressorIsLastRaiser == last_aggressor = LastRaiserOf(hand_log)

\* A seat raised or went all-in, the other seat then folded, checked or called,
\* and a new street began.
C6_Witness ==
    /\ last_call.op = "new_street"
    /\ last_aggressor \in Seated
    /\ Len(hand_log) >= 2
    /\ hand_log[Len(hand_log)].action \notin Raises
    /\ hand_log[Len(hand_log)].seat # last_aggressor
    /\ \E i \in 1..Len(hand_log) : hand_log[i].action = ALL_IN /\ hand_log[i].seat = last_aggressor

\* C7: a derived flag is true after record_action only if the action just
\* recorded satisfies the flag's definition.  The c-bet flag asks for hero's
\* Raise on the Flop after hero's Raise on the Preflop; every flag asks for the
\* recorded action to be a Raise.
C7_FlagsFollowRecordedAction ==
    Recorded =>
        /\ betting_symbols.is_continuation_bet_situation =>
              /\ last_call.action = RAISE
              /\ last_call.street = FLOP
              /\ last_call.seat = hero_seat
              /\ \E i \in 1..Len(hand_log) :
                    /\ hand_log[i].is_bot
                    /\ hand_log[i].street = PREFLOP
                    /\ hand_log[i].action = RAISE
        /\ \/ betting_symbols.is_check_raise_situation
           \/ betting_symbols.is_three_bet_situation
           \/ betting_symbols.is_four_bet_situation
           \/ betting_symbols.is_donk_bet_situation
           \/ betting_symbols.is_probe_bet_situation
           \/ betting_symbols.is_float_bet_situation
           => last_call.action = RAISE

\* C8: at any point of a hand the c-bet flag is true exactly when hero has
\* recorded a Raise on the Preflop and, after it, a Raise on the Flop.
C8_CbetIffPreflopThenFlopRaise ==
    betting_symbols.is_continuation_bet_situation <=>
        \E i, j \in 1..Len(hand_log) :
            /\ i < j
            /\ hand_log[i].is_bot /\ hand_log[i].street = PREFLOP /\ hand_log[i].action = RAISE
            /\ hand_log[j].is_bot /\ hand_log[j].street = FLOP /\ hand_log[j].action = RAISE

\* Hero raised on the Flop before raising on the Preflop: no c-bet.
C8_Witness ==
    /\ ~betting_symbols.is_continuation_bet_situation
    /\ \E i, j \in 1..Len(hand_log) :
            /\ i < j
            /\ hand_log[i].is_bot /\ hand_log[i].street = FLOP /\ hand_log[i].action = RAISE
            /\ hand_log[j].is_bot /\ hand_log[j].street = PREFLOP /\ hand_log[j].action = RAISE

\* C9: the 3-bet flag is set only by a Raise on a street on which two or more
\* raises, that Raise included, have been recorded in the hand; raises of
\* other streets do not count.
C9_ThreeBetNeedsTwoRaisesOnStreet ==
    betting_symbols.is_three_bet_situation =>
        \E j \in 1..Len(hand_log) :
            hand_log[j].action = RAISE /\ Cardinality(RaisesOnStreetUpTo(j)) >= 2

\* C10: the check-raise flag is set only by a Raise of an actor who checked
\* earlier on the same street, with a bet by some player recorded after that
\* Check and before the Raise.
C10_CheckRaiseNeedsBetBetween ==
    betting_symbols.is_check_raise_situation =>
        \E i, k, j \in 1..Len(hand_log) :
            /\ i < k /\ k < j
            /\ hand_log[i].street = hand_log[j].street
            /\ hand_log[k].street = hand_log[j].street
            /\ hand_log[i].seat = hand_log[j].seat
            /\ hand_log[i].action = CHECK
            /\ hand_log[k].action \in Raises
            /\ hand_log[j].action = RAISE

----------------------------------------------------------------------------
(* Properties of the decision policy *)

Decided == last_call.op = "make_decision"

\* The number of community cards that goes with a street.
BoardSizeOf(street) ==
    IF street = PREFLOP THEN 0
    ELSE IF street = FLOP THEN 3
    ELSE IF street = TURN THEN 4
    ELSE 5

\* The table state is internally inconsistent: the board does not match the
\* street, or the hero's seat or hole cards are unset.
Inconsistent ==
    \/ Len(community_cards) # BoardSizeOf(current_street)
    \/ hero_seat \notin Seated
    \/ NoCard \in Range(hero_cards)

\* C1: make_decision never raises an error, and on an internally
\* inconsistent table state (board size not matching the street, hero's seat
\* or hole cards unset) it returns (Fold, 0).
C1_DecideNeverRaises ==
    Decided =>
        /\ last_call.raised = "None"
        /\ Inconsistent => last_call.action = FOLD /\ last_call.amount = 0

\* C2: make_decision returns Check only in states where current_bet = 0, on
\* every street and in every branch of the policy.
C2_CheckOnlyWithoutBet ==
    Decided /\ last_call.action = CHECK => current_bet = 0

\* Check is returned after a street on which a Raise was recorded, and a bet
\* is faced on a later street by the same policy.
C2_Witness ==
    /\ Decided
    /\ last_call.action = CHECK
    /\ current_street \in {TURN, RIVER}
    /\ hand_log # <<>>
    /\ NoCard \notin Range(hero_cards)

----------------------------------------------------------------------------
(* Properties of the betting patterns and the history getters *)

\* The seat of the last Raise or All-in that the hand recorded on a street,
\* NoSeat if there is none.
LastRaiserOnStreet(log, street) ==
    LastRaiserOf(SelectSeq(log, LAMBDA e : e.street = street))

\* C11: the donk-bet flag is set only by a post-flop Raise of a non-hero
\* player who is out of position (Player.has_position is false), recorded when
\* hero was the last aggressor of the immediately preceding street; a Raise by
\* an opponent who is in position does not set it.
C11_DonkOnlyOutOfPositionRaise ==
    [][~betting_symbols.is_donk_bet_situation /\ betting_symbols'.is_donk_bet_situation =>
          /\ last_call'.op = "record_action"
          /\ last_call'.street # PREFLOP
          /\ last_call'.action = RAISE
          /\ last_call'.seat # hero_seat
          /\ ~players[last_call'.seat].has_position
          /\ LastRaiserOnStreet(hand_log, previous_street(last_call'.street)) = hero_seat]_vars

\* C12: whenever hero, acting in position (Player.has_position), records a
\* post-flop Raise on a street on which an opponent has already checked, the
\* probe-bet flag is true when that record_action returns.
C12_ProbeAfterOpponentCheck ==
    /\ Recorded
    /\ last_call.seat = hero_seat
    /\ last_call.action = RAISE
    /\ last_call.street # PREFLOP
    /\ players[hero_seat].has_position
    /\ \E i \in 1..(Len(hand_log) - 1) :
          /\ hand_log[i].street = last_call.street
          /\ ~hand_log[i].is_bot
          /\ hand_log[i].action = CHECK
    => betting_symbols.is_probe_bet_situation

\* Positions of hand_log recorded on a street.
OnStreet(street) == {i \in 1..Len(hand_log) : hand_log[i].street = street}

\* The position of the bot's most recent record on a street, 0 if it has none.
LastBotRecordOn(street) ==
    LET at == {i \in OnStreet(street) : hand_log[i].is_bot}
    IN IF at = {} THEN 0 ELSE CHOOSE i \in at : \A k \in at : k <= i

\* C13: raises_since_last_play(street), asked for the current street, equals
\* the number of raises (Raise or All-in) recorded on that street after the
\* bot's most recent action on that street, or the number of raises recorded
\* on that street so far if the bot has not yet acted on it.
C13_RaisesSinceLastPlay ==
    raises_since_last_play(betting_symbols, current_street) =
        Cardinality({i \in OnStreet(current_street) :
                        /\ i > LastBotRecordOn(current_street)
                        /\ hand_log[i].action \in Raises})

\* C14: bot_is_last_raiser() is true exactly when the most recent Raise or
\* All-in recorded in the current hand, on any street, was made by the bot;
\* once an opponent raises later than the bot's last raise it is false.
C14_BotIsLastRaiser ==
    bot_is_last_raiser(betting_symbols) <=>
        (hero_seat \in Seated /\ LastRaiserOf(hand_log) = hero_seat)

\* C15: when make_decision is evaluated and returns a decision, hero is
\* treated as facing a raise (_facing_raise) exactly when the number of raises
\* (Raise or All-in records) of the current street is greater than 0.
C15_FacingRaiseIffRaisesOnStreet ==
    Decided /\ last_call.raised = "None" =>
        (_facing_raise <=>
            \E i \in OnStreet(current_street) : hand_log[i].action \in Raises)

----------------------------------------------------------------------------
(* Properties of the amounts and the outcomes of make_decision *)

\* The chips the hero has put in during the current betting round: the blind
\* the hero's seat posted when the pot of a preflop round holds the blinds,
\* and BetAmount for each Raise the hand recorded for the hero on the street.
HeroChipsInRound ==
    LET blinds == SMALL_BLIND_SIZE + BIG_BLIND_SIZE
        blind == IF current_street # PREFLOP \/ pot_size % BetAmount # blinds THEN 0
                 ELSE IF hero_seat = (button_seat + 1) % 3 THEN SMALL_BLIND_SIZE
                 ELSE IF hero_seat = (button_seat + 2) % 3 THEN BIG_BLIND_SIZE
                 ELSE 0
    IN blind + BetAmount * Cardinality({i \in OnStreet(current_street) :
                                           hand_log[i].is_bot /\ hand_log[i].action = RAISE})

\* C16: whenever make_decision returns Call, the returned amount is the call
\* amount: current_bet minus the chips the hero has already put in during the
\* current betting round.
C16_CallAmountIsBetMinusChipsIn ==
    Decided /\ last_call.raised = "None" /\ last_call.action = CALL =>
        last_call.amount = (current_bet - HeroChipsInRound) * AmountUnit

\* C17: in every state reached through the state-update API (new_hand,
\* update_community_cards, new_street, record_action) the number of community
\* cards of the table state matches current_street: 0 on Preflop, 3 on Flop,
\* 4 on Turn, 5 on River.
C17_BoardSizeMatchesStreet == Len(community_cards) = BoardSizeOf(current_street)

----------------------------------------------------------------------------
(* Properties of the history counters *)

\* The number of entries of a street's action list whose action is in a set.
CountIn(street, actions) ==
    Cardinality({i \in 1..Len(history_symbols.action_sequence[street]) :
                    history_symbols.action_sequence[street][i].action \in actions})

\* C18: after any sequence of record_action calls within a hand, for each
\* street the raises counter equals the number of Raise or All-in entries of
\* that street's action list, and the calls and checks counters equal the
\* numbers of Call and Check entries of it.
C18_CountersMatchActionLists ==
    \A street \in Street :
        /\ history_symbols.raises_by_street[street] = CountIn(street, {RAISE, ALL_IN})
        /\ history_symbols.calls_by_street[street] = CountIn(street, {CALL})
        /\ history_symbols.checks_by_street[street] = CountIn(street, {CHECK})

\* A Raise and an All-in are counted on the flop after a Check or a Call was
\* recorded on the preflop.
C18_Witness ==
    /\ Recorded
    /\ current_street = FLOP
    /\ history_symbols.raises_by_street[FLOP] = 2
    /\ CountIn(FLOP, {RAISE}) = 1
    /\ CountIn(FLOP, {ALL_IN}) = 1
    /\ CountIn(PREFLOP, {CALL, CHECK}) = 1

----------------------------------------------------------------------------
(* Properties of the post-flop policy *)

\* The hero holds a medium made hand on the board of the table state.
HoldsMediumMadeHand ==
    \E hand \in {HandEvaluator_evaluate_hand_strength(hero_cards, community_cards)} :
        hand.raised = "None" /\ is_medium_made_hand(hand.value)

\* C19: on a post-flop street with no bet to face, when the hero holds a
\* medium made hand, make_decision returns a bet (Raise) if the hero is in
\* position or the board texture is Dry, and Check otherwise.  The table state
\* is consistent, and the decision returned is the one that a texture which
\* yields it calls for.
C19_MediumHandBetsInPositionOrDry ==
    /\ Decided
    /\ last_call.raised = "None"
    /\ ~Inconsistent
    /\ current_street # PREFLOP
    /\ ~_facing_bet
    /\ HoldsMediumMadeHand
    => \E equity_from_outs \in Equities : \E texture \in BoardTexture :
       \E decision \in {GeckoBot_make_decision(equity_from_outs, texture)} :
          /\ decision.action = last_call.action
          /\ decision.amount = last_call.amount
          /\ decision.action = IF _in_position \/ texture = "BoardTexture.DRY"
                               THEN RAISE ELSE CHECK

----------------------------------------------------------------------------
(* The evaluator's numeric score, applied as HandEvaluator.have_nuts and    *)
(* calculate_prwin apply it: to the hero's hole cards with a board and to   *)
(* another two cards with the same board.                                   *)

\* Hole cards that are scored.
ScoredHands ==
    {<<<<"A", "c">>, <<"5", "c">>>>, <<<<"5", "h">>, <<"6", "h">>>>,
     <<<<"A", "s">>, <<"3", "s">>>>, <<<<"Q", "s">>, <<"J", "s">>>>,
     <<<<"K", "h">>, <<"Q", "d">>>>, <<<<"9", "c">>, <<"9", "h">>>>,
     <<<<"T", "d">>, <<"8", "d">>>>}

\* Boards of three, four and five cards that are scored.
ScoredBoards ==
    {<<<<"2", "h">>, <<"3", "d">>, <<"4", "s">>>>,
     <<<<"7", "c">>, <<"7", "d">>, <<"K", "h">>>>,
     <<<<"K", "s">>, <<"9", "s">>, <<"4", "s">>, <<"2", "d">>>>,
     <<<<"K", "s">>, <<"9", "s">>, <<"4", "s">>, <<"2", "d">>, <<"7", "c">>>>}

InitScore ==
    /\ players = EmptyDict
    /\ hero_seat = -1
    /\ button_seat = -1
    /\ total_players = 0
    /\ active_players = 0
    /\ pot_size = 0
    /\ current_street = PREFLOP
    /\ current_bet = 0
    /\ min_raise = 0
    /\ last_aggressor = NoSeat
    /\ betting_symbols = BettingActionSymbols_reset
    /\ history_symbols = HistorySymbols_reset
    /\ position_symbols = PositionSymbols_reset
    /\ spr_symbols = SPRSymbols_reset
    /\ hero_cards \in ScoredHands
    /\ community_cards \in ScoredBoards
    /\ Range(hero_cards) \cap Range(community_cards) = {}
    /\ last_call = Call("__init__", NoSeat, NoAction, NoAmount, 0, 0, "None")
    /\ hand_log = <<>>

\* have_nuts: our_score = _calculate_hand_score(list(hole_cards) + board) and,
\* for a hand of two cards that _create_deck left in the deck,
\* score = _calculate_hand_score(list(hand) + board).
have_nuts_score(hand) ==
    /\ Range(hand) \cap (Range(hero_cards) \cup Range(community_cards)) = {}
    /\ last_call' = [op |-> "have_nuts", hand |-> hand,
                     our_score |-> _calculate_hand_score(hero_cards \o community_cards),
                     score |-> _calculate_hand_score(hand \o community_cards)]
    /\ UNCHANGED <<players, hero_seat, button_seat, total_players, active_players,
                   pot_size, current_street, current_bet, min_raise, last_aggressor,
                   betting_symbols, history_symbols, position_symbols, spr_symbols,
                   hero_cards, community_cards, hand_log>>

NextScore == \E hand \in ScoredHands : have_nuts_score(hand)

SpecScore == InitScore /\ [][NextScore]_vars

----------------------------------------------------------------------------
(* Properties of the evaluator's score *)

\* The standard showdown rank of five cards, as one number: the category (0
\* high card .. 8 straight flush), then the ranks that break ties within it,
\* most significant first (a five-high straight ranks by its five).
ShowdownRankOfFive(hand) ==
    LET values == Sorted(ValuesOf(hand))
        flush == Cardinality(Range(SuitsOf(hand))) = 1
        wheel == values = <<0, 1, 2, 3, 12>>
        straight == wheel \/ \A i \in 1..4 : values[i + 1] = values[i] + 1
        weight(v) == Count(values, v) * 13 + v
        ordered == SortSeq(values, LAMBDA a, b : weight(a) > weight(b))
        distinct == Cardinality(Range(values))
        most == Max({Count(values, v) : v \in Range(values)})
        category == IF straight /\ flush THEN 8
                    ELSE IF most = 4 THEN 7
                    ELSE IF most = 3 /\ distinct = 2 THEN 6
                    ELSE IF flush THEN 5
                    ELSE IF straight THEN 4
                    ELSE IF most = 3 THEN 3
                    ELSE IF most = 2 /\ distinct = 3 THEN 2
                    ELSE IF most = 2 THEN 1
                    ELSE 0
        ranks == IF straight
                 THEN <<IF wheel THEN 3 ELSE values[5], 0, 0, 0, 0>>
                 ELSE ordered
    IN category * 371293 + ranks[1] * 28561 + ranks[2] * 2197 + ranks[3] * 169
       + ranks[4] * 13 + ranks[5]

\* The showdown rank of the best five cards of a holding.
ShowdownRank(cards) ==
    Max({ShowdownRankOfFive([i \in 1..5 |-> cards[SortedSet(S)[i]]]) :
            S \in {T \in SUBSET (1..Len(cards)) : Cardinality(T) = 5}})

\* C20: for two holdings X and Y of 5 to 7 distinct cards, if the evaluator's
\* numeric score of X is lower than that of Y then X's best five-card hand
\* loses to Y's under the standard showdown ranking, and the two scores are
\* equal only when the best hands have the same category and the same ranks.
C20_ScoreOrdersShowdown ==
    last_call.op = "have_nuts" =>
        \E X \in {hero_cards \o community_cards} :
        \E Y \in {last_call.hand \o community_cards} :
           /\ last_call.our_score < last_call.score => ShowdownRank(X) < ShowdownRank(Y)
           /\ last_call.score < last_call.our_score => ShowdownRank(Y) < ShowdownRank(X)
           /\ last_call.our_score = last_call.score => ShowdownRank(X) = ShowdownRank(Y)

\* The best five cards of a holding are the straight A-2-3-4-5.
IsWheel(cards) == ShowdownRank(cards) = 4 * 371293 + 3 * 28561

\* The best five cards of a holding are a straight other than A-2-3-4-5.
IsOtherStraight(cards) == ShowdownRank(cards) \div 371293 = 4 /\ ~IsWheel(cards)

\* C21: the wheel A-2-3-4-5 is scored as a five-high straight: its numeric
\* score is lower than the score of every other straight, such as 2-3-4-5-6.
C21_WheelIsLowestStraight ==
    last_call.op = "have_nuts" =>
        \E X \in {hero_cards \o community_cards} :
        \E Y \in {last_call.hand \o community_cards} :
           /\ IsWheel(X) /\ IsOtherStraight(Y) => last_call.our_score < last_call.score
           /\ IsWheel(Y) /\ IsOtherStraight(X) => last_call.score < last_call.our_score

----------------------------------------------------------------------------
(* HandEvaluator.calculate_prwin: the Monte Carlo estimate of the equity.   *)

\* The 52 cards in the order of "r + s for r in RANKS for s in SUITS", without
\* the hole cards and the board.
_create_deck(hole_cards, board) ==
    SelectSeq([i \in 1..52 |-> <<RANKS[((i - 1) \div 4) + 1],
                                 <<"h", "d", "c", "s">>[((i - 1) % 4) + 1]>>],
              LAMBDA card : card \notin Range(hole_cards) \cup Range(board))

\* The outcomes of one pass of the simulation loop: the board is filled to
\* five cards and each opponent gets two cards, every card being
\* deck[random.randint(0, len(deck) - 1)] of the deck that stays as it is
\* (randint returns 0 or 20 here).
SimulationRuns(deck, board, num_opponents) ==
    {[remaining_board |-> board \o [k \in 1..(5 - Len(board)) |-> deck[filled[k] + 1]],
      opponent_hands |-> [o \in 1..num_opponents |->
                             <<deck[dealt[o][1] + 1], deck[dealt[o][2] + 1]>>]] :
        filled \in [1..(5 - Len(board)) -> {0, 20}],
        dealt \in [1..num_opponents -> [1..2 -> {0, 20}]]}

\* Twice the wins that the passes add up: a pass adds 2 if
\* hero_score > max(opponent_scores), 1 if they are equal, 0 otherwise.
RECURSIVE WinsOfRuns(_, _)
WinsOfRuns(hole_cards, runs) ==
    IF runs = <<>> THEN 0
    ELSE LET run == Head(runs)
             hero_score == _calculate_hand_score(hole_cards \o run.remaining_board)
             best == Max({_calculate_hand_score(run.opponent_hands[o] \o run.remaining_board) :
                             o \in DOMAIN run.opponent_hands})
         IN (IF hero_score > best THEN 2 ELSE IF hero_score = best THEN 1 ELSE 0)
            + WinsOfRuns(hole_cards, Tail(runs))

\* calculate_prwin: max() of no opponent scores raises ValueError in the first
\* pass, and wins / num_simulations raises ZeroDivisionError for no
\* simulations; the value returned is wins2 / (2 * num_simulations).  The call
\* changes nothing in the table state: one estimate is taken of each hand.
calculate_prwin(num_opponents, num_simulations) ==
    /\ last_call.op # "calculate_prwin"
    /\ NoCard \notin Range(hero_cards)
    /\ \E deck \in {_create_deck(hero_cards, community_cards)} :
       \E runs \in [1..num_simulations -> SimulationRuns(deck, community_cards, num_opponents)] :
          last_call' = [op |-> "calculate_prwin",
                        num_opponents |-> num_opponents,
                        num_simulations |-> num_simulations,
                        deck |-> deck,
                        runs |-> runs,
                        raised |-> IF num_simulations > 0 /\ num_opponents <= 0
                                   THEN "ValueError"
                                   ELSE IF num_simulations = 0 THEN "ZeroDivisionError"
                                   ELSE "None",
                        wins2 |-> IF num_opponents <= 0 THEN 0
                                  ELSE WinsOfRuns(hero_cards, runs)]
    /\ UNCHANGED <<players, hero_seat, button_seat, total_players, active_players,
                   pot_size, current_street, current_bet, min_raise, last_aggressor,
                   betting_symbols, history_symbols, position_symbols, spr_symbols,
                   hero_cards, community_cards, hand_log>>

\* The caller passes num_opponents and num_simulations.
NextPrwin ==
    \E input \in {<<1, 1>>, <<2, 1>>, <<1, 2>>, <<0, 1>>, <<1, 0>>, <<1, -1>>} :
       calculate_prwin(input[1], input[2])

SpecPrwin == InitScore /\ [][NextPrwin]_vars

----------------------------------------------------------------------------
(* Properties of the equity estimate *)

Estimated == last_call.op = "calculate_prwin"

\* A parameter below 1 is clamped to 1.
Clamped(n) == IF n < 1 THEN 1 ELSE n

\* C22: calling the equity estimator with a simulation count N <= 0 or with
\* an opponent count below 1 does not abort: the offending parameter is
\* clamped to 1 (that many passes are made, each with that many opponent
\* hands) and a value in [0, 1] is returned.
C22_PrwinClampsParameters ==
    Estimated /\ (last_call.num_simulations <= 0 \/ last_call.num_opponents < 1) =>
        /\ last_call.raised = "None"
        /\ Len(last_call.runs) = Clamped(last_call.num_simulations)
        /\ \A i \in DOMAIN last_call.runs :
              Len(last_call.runs[i].opponent_hands) = Clamped(last_call.num_opponents)
        /\ 0 <= last_call.wins2
        /\ last_call.wins2 <= 2 * Clamped(last_call.num_simulations)

\* The cards that a pass drew: those that fill the board and the opponents'.
DrawnIn(run) ==
    Range(SubSeq(run.remaining_board, Len(community_cards) + 1, Len(run.remaining_board)))
        \cup UNION {Range(run.opponent_hands[o]) : o \in DOMAIN run.opponent_hands}

\* C23: in every simulation pass of the equity estimator, the cards drawn to
\* complete the board and the 2 * num_opponents opponent hole cards are
\* pairwise distinct, and distinct from the hero's hole cards and the known
\* community cards.
C23_DrawnCardsDistinct ==
    Estimated /\ last_call.raised = "None" =>
        \A i \in DOMAIN last_call.runs :
        \E run \in {last_call.runs[i]} :
           /\ Cardinality(DrawnIn(run)) =
                 (5 - Len(community_cards)) + 2 * Len(run.opponent_hands)
           /\ DrawnIn(run) \cap (Range(hero_cards) \cup Range(community_cards)) = {}

----------------------------------------------------------------------------
(* An opening decision of the preflop: the caller seats the hero with       *)
(* update_player, the hole cards are set, the blinds are posted and raises  *)
(* are recorded before make_decision is called.                             *)

NextOpen ==
    \/ setup_game
    \/ \E seating \in SeatingInputs :
          update_player(seating[1], StartingStack, seating[2], TRUE)
    \/ \E d \in Deals \cup {[hero |-> <<<<"9", "c">>, <<"8", "c">>>>]} : deal_hero_cards(d)
    \/ _post_blinds
    \/ \E seat \in CallerSeats : record_raise(seat)
    \/ make_decision

SpecOpen == Init /\ [][NextOpen]_vars

----------------------------------------------------------------------------
(* Properties of the preflop policy *)

\* C24: preflop at a 3-handed table, with the hero on the Button holding 9c8c
\* and no raise recorded before the hero acts (the blinds are posted),
\* make_decision returns a Raise of 2.5 times the big blind, not a Fold.
C24_ButtonOpensSuitedConnector ==
    /\ Decided
    /\ current_street = PREFLOP
    /\ total_players = 3
    /\ hero_seat \in Seated
    /\ players[hero_seat].position = BUTTON
    /\ hero_cards = <<<<"9", "c">>, <<"8", "c">>>>
    /\ current_bet = BIG_BLIND_SIZE
    /\ \A i \in 1..Len(hand_log) : hand_log[i].action \notin Raises
    => /\ last_call.raised = "None"
       /\ last_call.action = RAISE
       /\ 10 * last_call.amount = 25 * BIG_BLIND_SIZE * AmountUnit

----------------------------------------------------------------------------
(* The draw and position predicates as a caller reads them: after the hole  *)
(* cards and the board are set, and after PositionSymbols.update_table_state *)
(* seats the hero at a table of three or six.                               *)

\* HandEvaluator._have_oesd on the hero's hole cards and a board of distinct
\* cards.
have_oesd ==
    /\ NoCard \notin Range(hero_cards)
    /\ Len(community_cards) >= 3
    /\ Cardinality(Range(hero_cards \o community_cards)) = 2 + Len(community_cards)
    /\ last_call' = [op |-> "_have_oesd",
                     returned |-> _have_oesd(hero_cards, community_cards)]
    /\ UNCHANGED <<players, hero_seat, button_seat, total_players, active_players,
                   pot_size, current_street, current_bet, min_raise, last_aggressor,
                   betting_symbols, history_symbols, position_symbols, spr_symbols,
                   hero_cards, community_cards, hand_log>>

\* PositionSymbols.update_table_state, called on the tracker as the tests call
\* it: the seats 0, 1, 2 are the Button and the blinds, the seats 3, 4, 5 of a
\* table of six are UTG, MP and CO, and every player is in the hand.
PositionSymbols_update_table_state(hero, total) ==
    /\ position_symbols' =
          [position_symbols EXCEPT
             !._hero_seat = hero,
             !._button_seat = 0,
             !._sb_seat = 1,
             !._bb_seat = 2,
             !._total_players = total,
             !._active_players = total,
             !._current_street = PREFLOP,
             !._player_positions =
                 [seat \in 0..(total - 1) |->
                     <<BUTTON, SMALL_BLIND, BIG_BLIND, "UTG", "MP", "CO">>[seat + 1]],
             !._player_in_hand = [seat \in 0..(total - 1) |-> TRUE],
             !._utg_seat = 3 % total]
    /\ last_call' = [op |-> "update_table_state", hero_seat |-> hero, total_players |-> total]
    /\ UNCHANGED <<players, hero_seat, button_seat, total_players, active_players,
                   pot_size, current_street, current_bet, min_raise, last_aggressor,
                   betting_symbols, history_symbols, spr_symbols,
                   hero_cards, community_cards, hand_log>>

NextSymbols ==
    \/ \E d \in {[hero |-> <<<<"A", "h">>, <<"2", "c">>>>],
                 [hero |-> <<<<"A", "h">>, <<"K", "c">>>>],
                 [hero |-> <<<<"2", "c">>, <<"3", "d">>>>],
                 [hero |-> <<<<"8", "c">>, <<"9", "d">>>>],
                 [hero |-> <<<<"9", "c">>, <<"9", "d">>>>]} : deal_hero_cards(d)
    \/ \E cards \in {<<<<"3", "d">>, <<"4", "s">>, <<"9", "h">>>>,
                     <<<<"Q", "d">>, <<"J", "s">>, <<"4", "h">>>>,
                     <<<<"4", "s">>, <<"5", "h">>, <<"9", "h">>>>,
                     <<<<"T", "s">>, <<"J", "h">>, <<"2", "d">>>>,
                     <<<<"8", "s">>, <<"T", "s">>, <<"J", "h">>>>} :
          update_community_cards(cards)
    \/ have_oesd
    \/ \E total \in {3, 6} : \E hero \in 0..(total - 1) :
          PositionSymbols_update_table_state(hero, total)

SpecSymbols == Init /\ [][NextSymbols]_vars

----------------------------------------------------------------------------
(* Properties of the draw and position predicates *)

\* The hole cards and the board hold four consecutive distinct ranks that can
\* be extended at both ends: 2-3-4-5 (by the ace and the six) up to T-J-Q-K.
HoldsOpenEndedRun ==
    \E low \in 0..8 :
        \A j \in 0..3 : low + j \in Range(ValuesOf(hero_cards \o community_cards))

\* C25: the hero is reported as holding an open-ended straight draw exactly
\* when the hole cards and the board contain four consecutive distinct ranks
\* that can be extended at both ends: A-2-3-4 and J-Q-K-A are not open-ended,
\* runs such as 2-3-4-5 or 8-9-T-J are.
C25_OesdIffOpenEndedRun ==
    last_call.op = "_have_oesd" => (last_call.returned <=> HoldsOpenEndedRun)

\* The position of the seat that update_table_state was given for the hero.
SeatedAs(position) ==
    position_symbols._player_positions[position_symbols._hero_seat] = position

\* C26: the hero counts as being in late position exactly when the hero's
\* position is Button or SmallBlind at a 3-handed table, and exactly when it
\* is Button or CO at a table with more than three players.
C26_LatePositionByTableSize ==
    last_call.op = "update_table_state" =>
        (is_late_position(position_symbols) <=>
            IF position_symbols._total_players = 3
            THEN SeatedAs(BUTTON) \/ SeatedAs(SMALL_BLIND)
            ELSE SeatedAs(BUTTON) \/ SeatedAs("CO"))

----------------------------------------------------------------------------
(* Properties of the trackers behind the decision *)

\* C27: on a TableState set up through its constructor, update_player and
\* the hero_seat, button_seat and total_players fields, new_street(street)
\* runs to completion without raising, and when it returns the position
\* tracker and the SPR tracker have been moved to the new street.
C27_NewStreetMovesTrackers ==
    last_call.op = "new_street" =>
        /\ last_call.raised = "None"
        /\ position_symbols._current_street = last_call.street
        /\ spr_symbols._current_street = last_call.street

\* C28: whenever make_decision is invoked, the hero seat, the player
\* positions, the stacks and the pot size held by the position tracker and
\* the SPR tracker equal those that the TableState holds.
C28_TrackersFollowTableState ==
    Decided =>
        /\ position_symbols._hero_seat = hero_seat
        /\ position_symbols._player_positions =
              [seat \in DOMAIN players |-> players[seat].position]
        /\ spr_symbols._hero_seat = hero_seat
        /\ spr_symbols._pot_size = pot_size
        /\ spr_symbols._player_stacks = [seat \in DOMAIN players |-> players[seat].stack]

\* C29: whenever make_decision returns Raise, the amount is a legal raise
\* size: strictly greater than current_bet and not greater than the hero's
\* stack.
C29_RaiseAmountIsLegal ==
    Decided /\ last_call.raised = "None" /\ last_call.action = RAISE /\ hero_seat \in Seated =>
        /\ last_call.amount > current_bet * AmountUnit
        /\ last_call.amount <= players[hero_seat].stack * AmountUnit

\* The hero holds a strong made hand on the board of the table state.
HoldsStrongMadeHand ==
    \E hand \in {HandEvaluator_evaluate_hand_strength(hero_cards, community_cards)} :
        hand.raised = "None" /\ is_strong_made_hand(hand.value)

\* C30: on the flop, when the hero holds a strong made hand and faces a bet
\* (current_bet > 0) that an opponent made on the flop, make_decision never
\* returns Fold, whatever the preflop action was.
C30_StrongHandNeverFoldsFlop ==
    /\ Decided
    /\ last_call.raised = "None"
    /\ current_street = FLOP
    /\ Len(community_cards) = 3
    /\ current_bet > 0
    /\ HoldsStrongMadeHand
    /\ \E i \in 1..Len(hand_log) :
          hand_log[i].street = FLOP /\ hand_log[i].action = RAISE /\ ~hand_log[i].is_bot
    => last_call.action # FOLD

====
